---- MODULE Spec2Model ----
(***************************************************************************)
(* A model of the ai-gdpr scanning pipeline: the directory walker, the     *)
(* bounded worker pool, the per-file scan (scanFile / performAIAnalysis /  *)
(* parseFindings), the whitelist, the report and the result aggregator.    *)
(*                                                                         *)
(* Conventions.                                                            *)
(*  - A Go string that the code inspects (trims, searches, compares) is a  *)
(*    sequence of tokens, each token a TLA+ string: one character such as  *)
(*    "a" or " ", a bracket "[" "]", a comma ",", a markdown fence            *)
(*    ("<fence-json>" and "<fence>" for three backquotes with and without  *)
(*    the word json), or the name of one JSON object of JsonObjects.       *)
(*  - A float64 confidence is an integer number of hundredths: 50 is 0.5.  *)
(*  - Go's index -1 (not found) is 0 here; positions are 1-based.          *)
(***************************************************************************)
EXTENDS Integers, Sequences, FiniteSets, TLC

VARIABLES
    \* ---- the Scanner of internal/scanner/scanner.go and its goroutines
    tree,          \* the directory entries filepath.WalkDir visits, in order
    workers,       \* cfg.Workers
    disableAI,     \* cfg.DisableAI
    fastMode,      \* cfg.FastMode
    whitelist,     \* Whitelist.items
    cancelled,     \* ctx.Done() is closed
    panicked,      \* "none", or the panic that no goroutine recovers
    mainPc,        \* the caller of Start() and Wait()
    walkIdx,       \* the entry the walker's callback is at (1-based)
    walkPc,        \* "idle", "walk", "closed"
    jobs,          \* the jobs channel buffer
    jobsClosed,    \* how often close(s.jobs) ran
    wPc,           \* per worker: "idle", "recv", "select", "scan", "send",
                   \* "exited", "panic"
    wJob,          \* per worker: the job it holds
    wRes,          \* per worker: the result of its scanFile
    wg,            \* the sync.WaitGroup counter
    results,       \* the results channel buffer
    resultsClosed, \* close(s.results) ran
    aggPc,         \* "idle", "loop", "add", "save", "finalized", "done"
    aggRes,        \* processResults: res, the result the loop body holds
    aggI,          \* processResults: index of the finding to save next
    report,        \* Report: Summary counters and Findings
    finalizeCount, \* how often Report.Finalize ran
    \* ---- history of the run (read by the properties only)
    hPut,          \* the jobs put on the jobs channel, in order
    hRecv,         \* per job: how often a worker received it
    hSent,         \* the results sent on the results channel, in order
    hProcessed,    \* the results the aggregator passed to AddResult, in order
    hInFlight,     \* the jobs being scanned or sent when cancel() was called
    \* ---- one call of scanFile taken step by step
    sfPc,          \* "idle", "filter", "done", "panic", or "off" in the pipeline
    sfIn,          \* the file's entry
    sfRes,         \* res, the ScanResult being built
    sfAi,          \* aiFindings, as returned by AnalyzeFile
    sfI,           \* the index of the next classifier finding to check
    sfWl0,         \* the whitelist when the scan began
    sfSeen,        \* the whitelist at each classifier finding's check
    sfCalls,       \* the AnalyzeFile calls made: <<context, typeList>> each
    \* ---- one call of TextScanner.Scan taken read by read
    txPc,          \* "read", "done", "failed", or "off" in the other specs
    txFile,        \* the file read: its size, filler byte and keywords
    txOffset,      \* offset: the bytes read before the next Read
    txOverlap,     \* len(overlap); overlap is the file's bytes before offset
    txMatches,     \* matches, or <<>> for nil
    \* ---- one call of a function of the extractor taken on its own
    fnPc,          \* "call", "returned", or "off" in the other specs
    fnName,        \* the function called
    fnIn,          \* its argument
    fnOut,         \* its result once it has returned
    \* ---- the whitelist file and the Add calls made
    wlFile,        \* the lines of the file at Whitelist.path
    wlNil,         \* Whitelist.items is a nil map
    wlLoaded,      \* the items loaded when the whitelist was made
    wlAdded,       \* the trimmed, non-empty values Add was called with
    \* ---- the finding store (internal/storage)
    storeMode,     \* the store operation that fails in this run, or "ok"
    scanModelID,   \* Scanner.ScanModelID
    dbScan,        \* the scan row: Status and the three totals
    dbFindings,    \* the rows SaveFinding inserted, in order
    \* ---- the command line program (cmd/scanner/main.go)
    exitCode,      \* the exit code of the process, or -1 while it runs
    reportSaved,   \* scan_report.json and scan_report.html were written
    \* ---- the review server (internal/server/server.go)
    srvReq,        \* per request to /scan: its method and its path value
    srvPc,         \* per request: where its handleScan call is
    srvStatus,     \* per request: the HTTP status written, 0 if none yet
    srvMu,         \* Server.mu: 0 when free, else the request that holds it
    scanning,      \* Server.scanning
    cfgRootPath,   \* Server.cfg.RootPath
    goPc,          \* per request: where the scan goroutine it started is
    srvReport,     \* Server.report: the request whose scan gave it, 0 at first
    srvDash        \* the page handleDashboard rendered last

pipeVars == <<tree, workers, disableAI, fastMode, cancelled, panicked, mainPc,
              walkIdx, walkPc, jobs, jobsClosed, wPc, wJob, wRes, wg, results,
              resultsClosed, aggPc, aggRes, aggI, report,
              finalizeCount, hPut, hRecv, hSent, hProcessed, hInFlight>>
scanVars == <<sfPc, sfIn, sfRes, sfAi, sfI, sfWl0, sfSeen, sfCalls>>
textVars == <<txPc, txFile, txOffset, txOverlap, txMatches>>
fnVars == <<fnPc, fnName, fnIn, fnOut>>
wlVars == <<wlFile, wlNil, wlLoaded, wlAdded>>
storeVars == <<storeMode, scanModelID, dbScan, dbFindings>>
cliVars == <<exitCode, reportSaved>>
srvVars == <<srvReq, srvPc, srvStatus, srvMu, scanning, cfgRootPath, goPc,
             srvReport, srvDash>>
vars == <<pipeVars, whitelist, scanVars, textVars, fnVars, wlVars, storeVars,
          cliVars, srvVars>>

----------------------------------------------------------------------------
(* Bounds of the model.                                                    *)

\* The longest directory walk (number of entries visited) with one worker.
MaxEntries == 6
\* The longest directory walk with several workers.
MaxParEntries == 3
\* The largest worker count.
MaxWorkers == 2

----------------------------------------------------------------------------
(* Strings.                                                                *)

\* strings.TrimSpace, left part.
RECURSIVE TrimLeft(_)
TrimLeft(s) ==
    IF s = <<>> THEN s
    ELSE IF Head(s) = " " THEN TrimLeft(Tail(s)) ELSE s

\* strings.TrimSpace, right part.
RECURSIVE TrimRight(_)
TrimRight(s) ==
    IF s = <<>> THEN s
    ELSE IF s[Len(s)] = " " THEN TrimRight(SubSeq(s, 1, Len(s) - 1)) ELSE s

TrimSpace(s) == TrimRight(TrimLeft(s))

\* strings.Index for a one-token needle: the first position, 0 when absent.
RECURSIVE IndexFrom(_, _, _)
IndexFrom(s, tok, i) ==
    IF i > Len(s) THEN 0
    ELSE IF s[i] = tok THEN i ELSE IndexFrom(s, tok, i + 1)

Index(s, tok) == IndexFrom(s, tok, 1)

\* strings.LastIndex for a one-token needle: the last position, 0 when absent.
RECURSIVE LastIndexFrom(_, _, _)
LastIndexFrom(s, tok, i) ==
    IF i < 1 THEN 0
    ELSE IF s[i] = tok THEN i ELSE LastIndexFrom(s, tok, i - 1)

LastIndex(s, tok) == LastIndexFrom(s, tok, Len(s))

----------------------------------------------------------------------------
(* Whitelist (internal/whitelist/whitelist.go).                            *)

\* Contains with the bug of looking the value up untrimmed.
ContainsExact(items, value) == value \in items

\* Whitelist.Contains: the trimmed value is looked up in items.
Contains(items, value) == TrimSpace(value) \in items

\* Whitelist.Add, the in-memory part: trim, ignore empties and duplicates.
WhitelistAdd(items, value) ==
    LET v == TrimSpace(value)
    IN  IF v = <<>> THEN items
        ELSE IF v \in items THEN items
        ELSE items \cup {v}

\* The lines of a whitelist file that holds the values of S, one a line.
RECURSIVE LinesOf(_)
LinesOf(S) ==
    IF S = {} THEN <<>>
    ELSE <<CHOOSE v \in S : TRUE>> \o LinesOf(S \ {CHOOSE v \in S : TRUE})

\* Whitelist.load on a file that can be read: every line is trimmed and the
\* non-empty ones become the items.
load(file) == {TrimSpace(file[i]) : i \in 1..Len(file)} \ {<<>>}

\* What os.OpenFile and f.WriteString may do in Add: "ok", or the step
\* that fails.
AppendOutcomes == {"ok", "open", "write"}

\* The file after Add(value) when the append goes as io says: nothing is
\* written for an empty or known value or when the map is nil (the
\* assignment panics first), else the trimmed value is appended as a line
\* unless the open or the write fails.
AddToFile(file, items, isNil, value, io) ==
    IF TrimSpace(value) = <<>> \/ TrimSpace(value) \in items \/ isNil
           \/ io # "ok"
    THEN file
    ELSE Append(file, TrimSpace(value))

\* Whether Add(value) panics: "w.items[value] = true" on a nil map.
AddPanics(items, isNil, value) == isNil /\ TrimSpace(value) # <<>>

\* The items after Add(value): on a nil map nothing is stored; otherwise
\* the value is stored before the file is opened.
AddToItems(items, isNil, value) ==
    IF isNil THEN items ELSE WhitelistAdd(items, value)

----------------------------------------------------------------------------
(* The finding store (internal/storage).                                   *)

\* The operations of the store; in a run one of them fails, or none
\* ("ok").
StoreModes == {"ok", "CreateScan", "SaveFinding", "GetScanByID",
               "CompleteScan"}

\* The scan row before CreateScan.
NoScan ==
    [Status |-> "none", TotalFiles |-> 0, PIIFiles |-> 0, TotalFindings |-> 0]

\* storage.CreateScan: the row inserted and its ID (the first row of the
\* table), or the error.
CreateScan(mode) ==
    IF mode = "CreateScan"
    THEN [err |-> TRUE, ID |-> 0, row |-> NoScan]
    ELSE [err |-> FALSE, ID |-> 1, row |-> [NoScan EXCEPT !.Status = "Running"]]

\* Start, "if err == nil { s.ScanModelID = scanModel.ID }".
StartScanModelID(mode) ==
    IF ~CreateScan(mode).err THEN CreateScan(mode).ID ELSE 0

\* storage.SaveFinding: one row inserted, or the error.
SaveFinding(rows, mode, scanID, path, f) ==
    IF mode = "SaveFinding" THEN rows
    ELSE Append(rows, [ScanID |-> scanID, FilePath |-> path, Type |-> f.Type,
                       Value |-> f.Snippet, Reason |-> f.Context,
                       Confidence |-> f.Confidence])

\* storage.CompleteScan: the row updated, or the error.
CompleteScan(row, mode, totalFiles, piiFiles, totalFindings) ==
    IF mode = "CompleteScan" THEN row
    ELSE [Status |-> "Completed", TotalFiles |-> totalFiles,
          PIIFiles |-> piiFiles, TotalFindings |-> totalFindings]

\* processResults after Finalize: the row is completed when there is a scan
\* ID and GetScanByID finds the row.
CompleteIfStored(row, mode, scanID, rep) ==
    IF scanID = 0 \/ mode = "GetScanByID" THEN row
    ELSE CompleteScan(row, mode, rep.TotalFilesScanned,
                      rep.TotalFilesWithPII, rep.TotalPIIFound)

----------------------------------------------------------------------------
(* The classifier client (OllamaClient).                                   *)

\* The JSON objects a classifier response may hold: token |-> decoded fields.
\* A missing "confidence" decodes to Go's zero value, like an explicit 0.
JsonObjects == {"{A95}", "{spA70}", "{B0}", "{Bmiss}", "{C150}", "{Dneg}"}

JsonObject(tok) ==
    CASE tok = "{A95}"   -> [Type |-> "Email", Value |-> <<"a">>,
                             Reason |-> "valid address", Confidence |-> 95]
      [] tok = "{spA70}" -> [Type |-> "Email", Value |-> <<" ", "a", " ">>,
                             Reason |-> "padded address", Confidence |-> 70]
      [] tok = "{B0}"    -> [Type |-> "IBAN", Value |-> <<"b">>,
                             Reason |-> "zero confidence", Confidence |-> 0]
      [] tok = "{Bmiss}" -> [Type |-> "IBAN", Value |-> <<"b">>,
                             Reason |-> "", Confidence |-> 0]
      [] tok = "{C150}"  -> [Type |-> "Name", Value |-> <<"c">>,
                             Reason |-> "too sure", Confidence |-> 150]
      [] tok = "{Dneg}"  -> [Type |-> "Phone", Value |-> <<"d">>,
                             Reason |-> "negative", Confidence |-> 0 - 10]

\* strings.TrimPrefix for the fences cleanMarkdown strips: "<fence-json>" if
\* the text starts with it, else "<fence>" if the text starts with it.
TrimFencePrefix(t) ==
    IF t # <<>> /\ Head(t) = "<fence-json>" THEN Tail(t)
    ELSE IF t # <<>> /\ Head(t) = "<fence>" THEN Tail(t)
    ELSE t

\* strings.TrimSuffix(text, "<fence>").
TrimFenceSuffix(t) ==
    IF t # <<>> /\ t[Len(t)] = "<fence>" THEN SubSeq(t, 1, Len(t) - 1) ELSE t

\* cleanMarkdown: trim, strip one leading fence and one trailing fence, trim.
cleanMarkdown(text) ==
    TrimSpace(TrimFenceSuffix(TrimFencePrefix(TrimSpace(text))))

\* The text without its whitespace tokens (JSON ignores whitespace between
\* its tokens).
RECURSIVE Unspace(_)
Unspace(s) ==
    IF s = <<>> THEN s
    ELSE IF Head(s) = " " THEN Unspace(Tail(s))
    ELSE <<Head(s)>> \o Unspace(Tail(s))

\* json.Unmarshal into []AiFinding: "[" object ("," object)* "]" or "[" "]".
JsonIsList(part) ==
    LET p == Unspace(part)
        n == Len(p)
    IN  /\ n >= 2
        /\ p[1] = "["
        /\ p[n] = "]"
        /\ \/ n = 2
           \/ /\ n % 2 = 1
              /\ \A i \in 2..(n - 1) :
                    IF i % 2 = 0 THEN p[i] \in JsonObjects ELSE p[i] = ","

\* The decoded list of a text for which JsonIsList holds.
JsonList(part) ==
    LET p == Unspace(part)
        k == (Len(p) - 1) \div 2
    IN  [i \in 1..k |-> JsonObject(p[2 * i])]

\* The confidence substituted for a missing or zero confidence.
DefaultConfidence == 80

\* parseFindings, the loop over the decoded findings: a zero confidence
\* becomes the default.
WithDefaultConfidence(decoded) ==
    [i \in 1..Len(decoded) |->
        [decoded[i] EXCEPT !.Confidence =
            IF decoded[i].Confidence = 0
            THEN DefaultConfidence ELSE decoded[i].Confidence]]

\* parseFindings from json.Unmarshal on: a decoding error is returned.
parseJsonPart(jsonPart) ==
    IF ~JsonIsList(jsonPart)
    THEN [panic |-> FALSE, err |-> TRUE, findings |-> <<>>]
    ELSE [panic |-> FALSE, err |-> FALSE,
          findings |-> WithDefaultConfidence(JsonList(jsonPart))]

\* parseFindings from the bracket search on: without both brackets the raw
\* text becomes one "Unknown" finding; cleanText[start : end+1] panics (slice
\* bounds out of range) when the last "]" lies before the first "[" and is
\* not next to it.
parseBetween(responseText, cleanText, start, end) ==
    IF start = 0 \/ end = 0
    THEN [panic |-> FALSE, err |-> FALSE,
          findings |-> << [Type |-> "Unknown", Value |-> responseText,
                           Reason |-> "AI returned non-JSON response",
                           Confidence |-> 0] >>]
    ELSE IF start > end + 1
    THEN [panic |-> TRUE, err |-> FALSE, findings |-> <<>>]
    ELSE parseJsonPart(SubSeq(cleanText, start, end))

parseCleaned(responseText, cleanText) ==
    parseBetween(responseText, cleanText,
                 Index(cleanText, "["), LastIndex(cleanText, "]"))

\* parseFindings: [panic, err, findings].
parseFindings(responseText) ==
    parseCleaned(responseText, cleanMarkdown(responseText))

\* callOllama: the HTTP exchange either fails (transport error or timeout,
\* non-200 status, undecodable body) or yields the trimmed response text.
callOllama(resp) ==
    IF resp.err # "none"
    THEN [err |-> TRUE, text |-> <<>>]
    ELSE [err |-> FALSE, text |-> TrimSpace(resp.text)]

\* AnalyzeFile after callOllama returned r: its error, or parseFindings.
AnalyzeResponse(r) ==
    IF r.err THEN [panic |-> FALSE, err |-> TRUE, findings |-> <<>>]
    ELSE parseFindings(r.text)

\* AnalyzeFile: the call, then parseFindings on its text.
AnalyzeFile(resp) == AnalyzeResponse(callOllama(resp))

----------------------------------------------------------------------------
(* The extractor factory (internal/extractor/factory.go).                  *)

\* strings.ToLower on the extensions of the model.
ToLower(ext) ==
    CASE ext = ".EXE" -> ".exe"
      [] ext = ".Zip" -> ".zip"
      [] ext = ".TXT" -> ".txt"
      [] OTHER -> ext

\* The extensions for which IsSupported returns false.
RejectList ==
    {".exe", ".dll", ".so", ".dylib", ".bin",
     ".jpg", ".jpeg", ".png", ".gif", ".bmp", ".tiff", ".webp",
     ".mp3", ".mp4", ".wav", ".avi", ".mov", ".mkv",
     ".zip", ".tar", ".gz", ".rar", ".7z", ".iso"}

\* An IsSupported that allows every extension.
IsSupportedAll(ext) == TRUE

\* Factory.IsSupported.
IsSupported(ext) == ext \notin RejectList

----------------------------------------------------------------------------
(* Matches, findings and results (internal/models/types.go).               *)

\* The confidence of a finding the classifier did not verify.
RegexConfidence == 50

\* The number of snippets performAIAnalysis puts into the classifier context.
ContextLimit == 50

\* The size above which fast mode skips a file: 1024*1024.
FastModeLimit == 1048576

NewMatch(type, snippet, value, offset) ==
    [Type |-> type, Snippet |-> snippet, Value |-> value, Offset |-> offset]

\* A file that is exactly "a": the snippet is the whole value.
mA == NewMatch("Email", <<"a">>, <<"a">>, 0)
\* "x b": the snippet frames the value.
mB == NewMatch("IBAN", <<"x", " ", "b">>, <<"b">>, 2)
mA2 == NewMatch("Email", <<"b", " ", "a">>, <<"a">>, 7)

\* More candidates than the classifier context takes.
LongMatches ==
    [i \in 1..(ContextLimit + 1) |-> NewMatch("Email", <<"b">>, <<"b">>, i)]

\* The classifier's behaviour for one call: the outcome of the HTTP exchange
\* and, when it succeeds, the "response" text.
NewResponse(err, text) == [err |-> err, text |-> text]

HttpErrors == {"transport", "timeout", "status", "decode"}

\* A directory entry and what the environment does when it is scanned:
\* kind is "dir", "unreadable" (the walk callback gets an error) or "file";
\* io names the step that fails ("stat", "open", "scan") or "ok"; matches is
\* the extractor's output; ai is the classifier's behaviour. size is what
\* scanFile's os.Stat reports (it follows a symbolic link) and info what the
\* walk's d.Info() gives (it describes the entry itself, and may fail).
NewEntry(kind, ext, size, io, matches, ai) ==
    [kind |-> kind, ext |-> ext, size |-> size, io |-> io,
     matches |-> matches, ai |-> ai, info |-> [err |-> FALSE, size |-> size]]

\* Entry e with d.Info() failing (err) or reporting size.
WithInfo(e, err, size) == [e EXCEPT !.info = [err |-> err, size |-> size]]

NoResponse == NewResponse("transport", <<>>)

\* The result scanFile starts from.
NewResult(path) ==
    [FilePath |-> path, FileType |-> "", Size |-> 0, Findings |-> <<>>,
     Error |-> ""]

\* The finding made from a raw match (classifier disabled or failed).
RawFinding(m) ==
    [Type |-> m.Type, Snippet |-> m.Snippet, Confidence |-> RegexConfidence,
     Offset |-> m.Offset, Context |-> ""]

\* RawFindings with the bug of stopping at the classifier context's limit.
RawFindingsLimited(matches) ==
    [i \in 1..(IF Len(matches) < ContextLimit THEN Len(matches)
               ELSE ContextLimit) |-> RawFinding(matches[i])]

\* The loop that appends one raw finding per match, in match order.
RawFindings(matches) == [i \in 1..Len(matches) |-> RawFinding(matches[i])]

\* The finding made from a classifier finding.
AIFinding(f) ==
    [Type |-> f.Type, Snippet |-> f.Value, Confidence |-> f.Confidence,
     Offset |-> 0, Context |-> f.Reason]

\* One iteration of performAIAnalysis's loop over aiFindings: a whitelisted
\* value is skipped, any other finding is appended.
FilterOne(findings, f, items) ==
    IF Contains(items, f.Value) THEN findings
    ELSE Append(findings, AIFinding(f))

\* The whole loop, with the whitelist unchanged while it runs.
RECURSIVE FilterAll(_, _, _)
FilterAll(findings, ai, items) ==
    IF ai = <<>> THEN findings
    ELSE FilterAll(FilterOne(findings, Head(ai), items), Tail(ai), items)

\* The context text of the classifier call: one line per match, for the first
\* ContextLimit matches.
BuildContext(path, matches) ==
    LET limit == IF Len(matches) < ContextLimit THEN Len(matches)
                 ELSE ContextLimit
    IN  [file |-> path,
         lines |-> [i \in 1..limit |-> <<matches[i].Type, matches[i].Snippet>>]]

\* A typeList without the uniqueTypes test: the type of every match.
UniqueTypesRepeated(matches, acc) ==
    acc \o [i \in 1..Len(matches) |-> matches[i].Type]

\* typeList: each distinct match type once, in order of first occurrence.
RECURSIVE UniqueTypes(_, _)
UniqueTypes(matches, acc) ==
    IF matches = <<>> THEN acc
    ELSE IF \E i \in 1..Len(acc) : acc[i] = Head(matches).Type
         THEN UniqueTypes(Tail(matches), acc)
         ELSE UniqueTypes(Tail(matches), Append(acc, Head(matches).Type))

\* performAIAnalysis up to the return of AnalyzeFile, which gave a: a panic
\* passes through, an error falls back to the raw matches, and an answer is
\* left to be filtered.
performAIAnalysis(res, matches, a) ==
    IF a.panic
    THEN [kind |-> "panic", res |-> res, ai |-> <<>>, called |-> TRUE]
    ELSE IF a.err
    THEN [kind |-> "done",
          res |-> [res EXCEPT !.Findings = RawFindings(matches)],
          ai |-> <<>>, called |-> TRUE]
    ELSE [kind |-> "filter", res |-> res, ai |-> a.findings, called |-> TRUE]

\* scanFile returning r without a classifier call.
Returned(r) == [kind |-> "done", res |-> r, ai |-> <<>>, called |-> FALSE]

\* scanMatches with the bug of calling the classifier although it is
\* disabled.
scanMatchesAlwaysAI(res, e, noAI) ==
    IF e.matches = <<>> THEN Returned(res)
    ELSE performAIAnalysis(res, e.matches, AnalyzeFile(e.ai))

\* scanFile once the file is known to have opened and been extracted.
scanMatches(res, e, noAI) ==
    IF e.matches = <<>> THEN Returned(res)
    ELSE IF noAI
    THEN Returned([res EXCEPT !.Findings = RawFindings(e.matches)])
    ELSE performAIAnalysis(res, e.matches, AnalyzeFile(e.ai))

\* ScanPrefix with the bug of recording the extractor's error and going on
\* to the matches.
ScanPrefixKeepsMatches(path, e, noAI) ==
    IF e.io = "stat" THEN Returned([NewResult(path) EXCEPT !.Error = "stat"])
    ELSE IF ~IsSupported(ToLower(e.ext))
    THEN Returned([NewResult(path) EXCEPT !.Size = e.size])
    ELSE IF e.io = "open"
    THEN Returned([NewResult(path) EXCEPT !.Size = e.size,
                                          !.FileType = ToLower(e.ext),
                                          !.Error = e.io])
    ELSE scanMatches([NewResult(path) EXCEPT
                         !.Size = e.size,
                         !.FileType = ToLower(e.ext),
                         !.Error = IF e.io = "scan" THEN "scan" ELSE ""],
                     e, noAI)

\* scanFile up to the return of AnalyzeFile. kind is "done" (res is the
\* result), "filter" (the classifier answered: ai is aiFindings, to be
\* filtered into res) or "panic"; called tells whether AnalyzeFile was called.
ScanPrefix(path, e, noAI) ==
    IF e.io = "stat" THEN Returned([NewResult(path) EXCEPT !.Error = "stat"])
    ELSE IF ~IsSupported(ToLower(e.ext))
    THEN Returned([NewResult(path) EXCEPT !.Size = e.size])
    ELSE IF e.io \in {"open", "scan"}
    THEN Returned([NewResult(path) EXCEPT !.Size = e.size,
                                          !.FileType = ToLower(e.ext),
                                          !.Error = e.io])
    ELSE scanMatches([NewResult(path) EXCEPT !.Size = e.size,
                                             !.FileType = ToLower(e.ext)],
                     e, noAI)

\* The rest of scanFile after ScanPrefix gave p, with the whitelist unchanged
\* while the loop runs: [panic, res].
ScanRest(p, items) ==
    [panic |-> p.kind = "panic",
     res |-> IF p.kind = "filter"
             THEN [p.res EXCEPT
                      !.Findings = FilterAll(p.res.Findings, p.ai, items)]
             ELSE p.res]

\* scanFile as one step: [panic, res].
ScanFile(path, e, noAI, items) == ScanRest(ScanPrefix(path, e, noAI), items)

----------------------------------------------------------------------------
(* The report (internal/reporting/reporter.go).                            *)

\* NewReport.
NewReport ==
    [TotalFilesScanned |-> 0, TotalFilesWithPII |-> 0, TotalPIIFound |-> 0,
     Findings |-> <<>>]

\* AddResult with the bug of counting a file as scanned only when it has no
\* findings.
AddResultScannedElse(r, res) ==
    IF Len(res.Findings) > 0
    THEN [TotalFilesScanned |-> r.TotalFilesScanned,
          TotalFilesWithPII |-> r.TotalFilesWithPII + 1,
          TotalPIIFound |-> r.TotalPIIFound + Len(res.Findings),
          Findings |-> Append(r.Findings, res)]
    ELSE [r EXCEPT !.TotalFilesScanned = r.TotalFilesScanned + 1]

\* AddResult with the bug of counting one finding per file.
AddResultCountOne(r, res) ==
    IF Len(res.Findings) > 0
    THEN [TotalFilesScanned |-> r.TotalFilesScanned + 1,
          TotalFilesWithPII |-> r.TotalFilesWithPII + 1,
          TotalPIIFound |-> r.TotalPIIFound + 1,
          Findings |-> Append(r.Findings, res)]
    ELSE [r EXCEPT !.TotalFilesScanned = r.TotalFilesScanned + 1]

\* Report.AddResult.
AddResult(r, res) ==
    IF Len(res.Findings) > 0
    THEN [TotalFilesScanned |-> r.TotalFilesScanned + 1,
          TotalFilesWithPII |-> r.TotalFilesWithPII + 1,
          TotalPIIFound |-> r.TotalPIIFound + Len(res.Findings),
          Findings |-> Append(r.Findings, res)]
    ELSE [r EXCEPT !.TotalFilesScanned = r.TotalFilesScanned + 1]

----------------------------------------------------------------------------
(* The inputs of the model.                                                *)

\* The classifier behaviours.
AiTexts ==
    { <<"[", "{A95}", "]">>,
      <<" ", "[", "{spA70}", ",", "{B0}", "]", " ">>,
      <<"<fence-json>", "[", "{A95}", ",", "{Bmiss}", "]", "<fence>">>,
      <<"<fence>", "[", "]", "<fence>">>,
      <<"[", "{C150}", ",", "{Dneg}", "]">>,
      <<"x", "[", "{A95}", "]", "x">>,
      <<"a">>,
      <<"x", "]">>,
      <<"[", "x", "]">>,
      <<"[", "{A95}", "{B0}", "]">>,
      <<"]", "[">>,
      <<"]", " ", "[">> }

AiResponses ==
    {NewResponse(e, <<>>) : e \in HttpErrors}
        \cup {NewResponse("none", t) : t \in AiTexts}

\* The entries walked by the pipeline, as a cycle: a tree of the model is a
\* window of this cycle.
Catalogue ==
    << NewEntry("dir", "", 0, "ok", <<>>, NoResponse),
       NewEntry("file", ".EXE", 10, "ok", <<mA>>, NoResponse),
       NewEntry("file", ".txt", FastModeLimit + 1, "ok", <<mB>>,
                NewResponse("none", <<"[", "{A95}", ",", "{Bmiss}", "]">>)),
       NewEntry("file", ".txt", 10, "ok", <<>>, NoResponse),
       WithInfo(NewEntry("file", ".txt", FastModeLimit + 1, "stat", <<>>,
                         NoResponse), TRUE, 0),
       NewEntry("file", ".TXT", FastModeLimit, "ok", <<mA>>,
                NewResponse("none", <<"[", "{A95}", "]">>)),
       NewEntry("file", "", 10, "ok", <<mB, mA2>>,
                NewResponse("timeout", <<>>)),
       NewEntry("file", ".pdf", 10, "scan", <<>>, NoResponse),
       WithInfo(NewEntry("file", ".txt", FastModeLimit + 1, "ok", <<mB>>,
                         NewResponse("none",
                                     <<"[", "{spA70}", ",", "{B0}", "]">>)),
                FALSE, 10),
       NewEntry("file", ".txt", 10, "open", <<>>, NoResponse),
       NewEntry("unreadable", "", 0, "ok", <<>>, NoResponse),
       NewEntry("file", ".txt", 10, "ok", <<mA>>,
                NewResponse("none", <<"]", " ", "[">>)) >>

Tree(start, len) ==
    [i \in 1..len |-> Catalogue[((start + i - 2) % Len(Catalogue)) + 1]]

\* Where in the cycle a tree may start.
TreeStarts == {1, 4, 9}

\* The longest walk of a run with n workers.
MaxLen(n) == IF n = 1 THEN MaxEntries ELSE MaxParEntries

\* The whitelists a scan may start with, and the values added while it runs.
WlValues == {<<"a">>, <<"b">>}
AddValues == {<<" ", "a">>, <<"b">>, <<" ">>}

\* The files scanFile is called on in the single-scan specification.
ScanEntries ==
    {NewEntry("file", x, 10, io, m, ai) :
        x \in {".txt", ".EXE"}, io \in {"ok", "stat", "open", "scan"},
        m \in {<<>>, <<mA>>, <<mB, mA2>>, <<mA, mB, mA2>>, LongMatches},
        ai \in AiResponses}

----------------------------------------------------------------------------
(* The scanner (internal/scanner).                                         *)

\* The capacity of the jobs and of the results channel: cfg.Workers*4.
ChanCap == workers * 4

\* The process runs until it exits: main returns, or the runtime ends it
\* after a panic that no goroutine recovers.
Alive == exitCode = -1

\* The Go runtime on a panic that was not recovered: once the deferred calls
\* of the panicking goroutine have run, the panic is printed and the process
\* exits with code 2. The other goroutines run until then.
PanicExit ==
    /\ Alive
    /\ panicked # "none"
    /\ exitCode' = 2
    /\ UNCHANGED <<pipeVars, whitelist, scanVars, textVars, fnVars, wlVars,
                   storeVars, reportSaved, srvVars>>

\* Start(): the scan row is created, then the workers (wg.Add(1) each), the
\* result processor and the walker are launched.
Start ==
    /\ Alive
    /\ mainPc = "init"
    /\ mainPc' = "wait"
    /\ wg' = workers
    /\ wPc' = [w \in 1..workers |-> "recv"]
    /\ aggPc' = "loop"
    /\ walkPc' = "walk"
    /\ scanModelID' = StartScanModelID(storeMode)
    /\ dbScan' = CreateScan(storeMode).row
    /\ UNCHANGED <<tree, workers, disableAI, fastMode, cancelled, panicked,
                   walkIdx, jobs, jobsClosed, wJob, wRes, results,
                   resultsClosed, aggRes, aggI, report, finalizeCount,
                   hPut, hRecv, hSent, hProcessed, hInFlight, whitelist,
                   scanVars,
                textVars, fnVars, wlVars, storeMode, dbFindings, cliVars, srvVars>>

\* cancel(): the context's Done channel is closed.
Cancel ==
    /\ Alive
    /\ mainPc \in {"wait", "close", "join"}
    /\ ~cancelled
    /\ cancelled' = TRUE
    /\ hInFlight' = {wJob[w] : w \in {v \in 1..workers :
                                          wPc[v] \in {"scan", "send"}}}
    /\ UNCHANGED <<tree, workers, disableAI, fastMode, panicked, mainPc,
                   walkIdx, walkPc, jobs, jobsClosed, wPc, wJob, wRes, wg,
                   results, resultsClosed, aggPc, aggRes, aggI, report, finalizeCount,
                   hPut, hRecv, hSent, hProcessed, whitelist, scanVars,
                textVars, fnVars, wlVars, storeVars, cliVars, srvVars>>

\* Whether the walk callback emits a job for entry e.
EmitsJob(e) ==
    /\ e.kind = "file"
    /\ IsSupported(ToLower(e.ext))
    /\ ~(fastMode /\ ~e.info.err /\ e.info.size > FastModeLimit)

walkerUnchanged ==
    UNCHANGED <<tree, workers, disableAI, fastMode, cancelled, panicked,
                mainPc, wPc, wJob, wRes, wg, results, resultsClosed, aggPc, aggRes, aggI,
                report, finalizeCount, hRecv, hSent, hProcessed, hInFlight,
                whitelist, scanVars,
                textVars, fnVars, wlVars, storeVars, cliVars, srvVars>>

\* walkFiles, the callback returning nil without a job: an access error, a
\* directory, a rejected extension, or a file over the fast-mode limit.
WalkSkip ==
    /\ Alive
    /\ walkPc = "walk"
    /\ walkIdx <= Len(tree)
    /\ ~EmitsJob(tree[walkIdx])
    /\ walkIdx' = walkIdx + 1
    /\ UNCHANGED <<walkPc, jobs, jobsClosed, hPut>>
    /\ walkerUnchanged

\* WalkSend on a jobs channel without a capacity.
WalkSendUnbounded ==
    /\ Alive
    /\ walkPc = "walk"
    /\ walkIdx <= Len(tree)
    /\ EmitsJob(tree[walkIdx])
    /\ jobs' = Append(jobs, walkIdx)
    /\ hPut' = Append(hPut, walkIdx)
    /\ walkIdx' = walkIdx + 1
    /\ UNCHANGED <<walkPc, jobsClosed>>
    /\ walkerUnchanged

\* walkFiles, the select's send case: the job goes on the jobs channel.
WalkSend ==
    /\ Alive
    /\ walkPc = "walk"
    /\ walkIdx <= Len(tree)
    /\ EmitsJob(tree[walkIdx])
    /\ Len(jobs) < ChanCap
    /\ jobs' = Append(jobs, walkIdx)
    /\ hPut' = Append(hPut, walkIdx)
    /\ walkIdx' = walkIdx + 1
    /\ UNCHANGED <<walkPc, jobsClosed>>
    /\ walkerUnchanged

\* WalkCancelled with the bug of closing the jobs channel and walking on.
WalkCancelledWalksOn ==
    /\ Alive
    /\ walkPc = "walk"
    /\ walkIdx <= Len(tree)
    /\ EmitsJob(tree[walkIdx])
    /\ cancelled
    /\ jobsClosed' = jobsClosed + 1
    /\ walkIdx' = walkIdx + 1
    /\ UNCHANGED <<walkPc, jobs, hPut>>
    /\ walkerUnchanged

\* walkFiles, the select's ctx.Done() case: SkipAll ends the walk and the
\* deferred close(s.jobs) runs.
WalkCancelled ==
    /\ Alive
    /\ walkPc = "walk"
    /\ walkIdx <= Len(tree)
    /\ EmitsJob(tree[walkIdx])
    /\ cancelled
    /\ walkPc' = "closed"
    /\ jobsClosed' = jobsClosed + 1
    /\ UNCHANGED <<walkIdx, jobs, hPut>>
    /\ walkerUnchanged

\* walkFiles, the walk is over: the deferred close(s.jobs) runs.
WalkClose ==
    /\ Alive
    /\ walkPc = "walk"
    /\ walkIdx > Len(tree)
    /\ walkPc' = "closed"
    /\ jobsClosed' = jobsClosed + 1
    /\ UNCHANGED <<walkIdx, jobs, hPut>>
    /\ walkerUnchanged

workerUnchanged ==
    UNCHANGED <<tree, workers, disableAI, fastMode, cancelled, mainPc,
                walkIdx, walkPc, jobsClosed, resultsClosed, aggPc, aggRes, aggI, report,
                finalizeCount, hPut, hProcessed, hInFlight, whitelist,
                scanVars,
                textVars, fnVars, wlVars, storeVars, cliVars, srvVars>>

\* worker, "for job := range s.jobs": a job is received.
WorkerRecv(w) ==
    /\ Alive
    /\ wPc[w] = "recv"
    /\ jobs # <<>>
    /\ wJob' = [wJob EXCEPT ![w] = Head(jobs)]
    /\ jobs' = Tail(jobs)
    /\ hRecv' = [hRecv EXCEPT ![Head(jobs)] = @ + 1]
    /\ wPc' = [wPc EXCEPT ![w] = "select"]
    /\ UNCHANGED <<panicked, wRes, wg, results, hSent>>
    /\ workerUnchanged

\* worker, the range loop ends on the closed and drained jobs channel; the
\* deferred wg.Done() runs.
WorkerExit(w) ==
    /\ Alive
    /\ wPc[w] = "recv"
    /\ jobs = <<>>
    /\ jobsClosed > 0
    /\ wPc' = [wPc EXCEPT ![w] = "exited"]
    /\ wg' = wg - 1
    /\ UNCHANGED <<panicked, jobs, wJob, wRes, results, hRecv, hSent>>
    /\ workerUnchanged

\* worker, the select's ctx.Done() case: return, dropping the job held;
\* the deferred wg.Done() runs.
WorkerCancelled(w) ==
    /\ Alive
    /\ wPc[w] = "select"
    /\ cancelled
    /\ wPc' = [wPc EXCEPT ![w] = "exited"]
    /\ wg' = wg - 1
    /\ UNCHANGED <<panicked, jobs, wJob, wRes, results, hRecv, hSent>>
    /\ workerUnchanged

\* worker, the select's default case is taken: scanFile is entered.
WorkerSelect(w) ==
    /\ Alive
    /\ wPc[w] = "select"
    /\ ~cancelled
    /\ wPc' = [wPc EXCEPT ![w] = "scan"]
    /\ UNCHANGED <<panicked, jobs, wJob, wRes, wg, results, hRecv, hSent>>
    /\ workerUnchanged

\* worker, "result := s.scanFile(job.FilePath)". A panic in scanFile is not
\* recovered anywhere: the worker's deferred wg.Done() runs and the worker
\* goes no further; the runtime then ends the process (PanicExit).
WorkerScan(w) ==
    /\ Alive
    /\ wPc[w] = "scan"
    /\ \E r \in {ScanFile(wJob[w], tree[wJob[w]], disableAI, whitelist)} :
          IF r.panic
          THEN /\ panicked' = "scanFile"
               /\ wPc' = [wPc EXCEPT ![w] = "panic"]
               /\ wg' = wg - 1
               /\ UNCHANGED wRes
          ELSE /\ wRes' = [wRes EXCEPT ![w] = r.res]
               /\ wPc' = [wPc EXCEPT ![w] = "send"]
               /\ UNCHANGED <<panicked, wg>>
    /\ UNCHANGED <<jobs, wJob, results, hRecv, hSent>>
    /\ workerUnchanged

\* worker, "s.results <- result": blocks while the buffer is full; a send on
\* a closed channel panics, and the deferred wg.Done() runs.
WorkerSend(w) ==
    /\ Alive
    /\ wPc[w] = "send"
    /\ resultsClosed \/ Len(results) < ChanCap
    /\ IF resultsClosed
       THEN /\ panicked' = "send on closed channel"
            /\ wPc' = [wPc EXCEPT ![w] = "panic"]
            /\ wg' = wg - 1
            /\ UNCHANGED <<results, hSent>>
       ELSE /\ results' = Append(results, wRes[w])
            /\ hSent' = Append(hSent, wRes[w])
            /\ wPc' = [wPc EXCEPT ![w] = "recv"]
            /\ UNCHANGED <<panicked, wg>>
    /\ UNCHANGED <<jobs, wJob, wRes, hRecv>>
    /\ workerUnchanged

aggUnchanged ==
    UNCHANGED <<tree, workers, disableAI, fastMode, cancelled, panicked,
                mainPc, walkIdx, walkPc, jobs, jobsClosed, wPc, wJob, wRes,
                wg, resultsClosed, hPut, hRecv, hSent, hInFlight, whitelist,
                scanVars,
                textVars, fnVars, wlVars, storeMode, scanModelID, cliVars, srvVars>>

\* processResults, "for res := range s.results" receives one result from
\* the results channel.
Receive ==
    /\ Alive
    /\ aggPc = "loop"
    /\ results # <<>>
    /\ aggRes' = Head(results)
    /\ results' = Tail(results)
    /\ aggI' = 1
    /\ aggPc' = "add"
    /\ UNCHANGED <<report, hProcessed, finalizeCount, dbScan, dbFindings>>
    /\ aggUnchanged

\* Where the loop body goes after AddResult: to the saving of the findings
\* under "if s.ScanModelID != 0 && len(res.Findings) > 0", else to the next
\* receive.
AfterAdd(scanID, res) ==
    IF scanID # 0 /\ Len(res.Findings) > 0 THEN "save" ELSE "loop"

\* ProcessResult with the bug of finalizing the report after every result.
ProcessResultFinalizing ==
    /\ Alive
    /\ aggPc = "add"
    /\ report' = AddResult(report, aggRes)
    /\ hProcessed' = Append(hProcessed, aggRes)
    /\ finalizeCount' = finalizeCount + 1
    /\ aggPc' = AfterAdd(scanModelID, aggRes)
    /\ UNCHANGED <<results, aggRes, aggI, dbScan, dbFindings>>
    /\ aggUnchanged

\* processResults, "s.Report.AddResult(res)": the held result is added to the
\* report, under the report's lock.
ProcessResult ==
    /\ Alive
    /\ aggPc = "add"
    /\ report' = AddResult(report, aggRes)
    /\ hProcessed' = Append(hProcessed, aggRes)
    /\ aggPc' = AfterAdd(scanModelID, aggRes)
    /\ UNCHANGED <<results, aggRes, aggI, finalizeCount, dbScan, dbFindings>>
    /\ aggUnchanged

\* SaveOne with the bug of returning from processResults when a finding
\* cannot be saved.
SaveOneReturnsOnError ==
    /\ Alive
    /\ aggPc = "save"
    /\ dbFindings' = SaveFinding(dbFindings, storeMode, scanModelID,
                                 aggRes.FilePath, aggRes.Findings[aggI])
    /\ aggI' = aggI + 1
    /\ aggPc' = IF storeMode = "SaveFinding" THEN "done"
                ELSE IF aggI < Len(aggRes.Findings) THEN "save" ELSE "loop"
    /\ UNCHANGED <<results, aggRes, report, hProcessed, finalizeCount, dbScan>>
    /\ aggUnchanged

\* SaveOne with the bug of saving the first finding of a result only.
SaveOneFirstOnly ==
    /\ Alive
    /\ aggPc = "save"
    /\ dbFindings' = SaveFinding(dbFindings, storeMode, scanModelID,
                                 aggRes.FilePath, aggRes.Findings[aggI])
    /\ aggI' = aggI + 1
    /\ aggPc' = "loop"
    /\ UNCHANGED <<results, aggRes, report, hProcessed, finalizeCount, dbScan>>
    /\ aggUnchanged

\* processResults, one iteration of "for _, f := range res.Findings": one
\* call of storage.SaveFinding, its error dropped.
SaveOne ==
    /\ Alive
    /\ aggPc = "save"
    /\ dbFindings' = SaveFinding(dbFindings, storeMode, scanModelID,
                                 aggRes.FilePath, aggRes.Findings[aggI])
    /\ aggI' = aggI + 1
    /\ aggPc' = IF aggI < Len(aggRes.Findings) THEN "save" ELSE "loop"
    /\ UNCHANGED <<results, aggRes, report, hProcessed, finalizeCount, dbScan>>
    /\ aggUnchanged

\* Finalize with the bug of leaving the loop as soon as the results channel
\* is empty.
FinalizeOnEmpty ==
    /\ Alive
    /\ aggPc = "loop"
    /\ results = <<>>
    /\ finalizeCount' = finalizeCount + 1
    /\ aggPc' = "finalized"
    /\ UNCHANGED <<results, aggRes, aggI, report, hProcessed, dbScan,
                   dbFindings>>
    /\ aggUnchanged

\* processResults, the range loop ends on the closed and drained results
\* channel, and s.Report.Finalize() runs.
Finalize ==
    /\ Alive
    /\ aggPc = "loop"
    /\ results = <<>>
    /\ resultsClosed
    /\ finalizeCount' = finalizeCount + 1
    /\ aggPc' = "finalized"
    /\ UNCHANGED <<results, aggRes, aggI, report, hProcessed, dbScan,
                   dbFindings>>
    /\ aggUnchanged

\* SignalDone with the bug of completing the scan row with the counters in
\* another order.
SignalDoneSwapped ==
    /\ Alive
    /\ aggPc = "finalized"
    /\ dbScan' = IF scanModelID = 0 \/ storeMode = "GetScanByID" THEN dbScan
                 ELSE CompleteScan(dbScan, storeMode, report.TotalFilesWithPII,
                                   report.TotalFilesScanned,
                                   report.TotalPIIFound)
    /\ aggPc' = "done"
    /\ UNCHANGED <<results, aggRes, aggI, report, finalizeCount, hProcessed,
                   dbFindings>>
    /\ aggUnchanged

\* processResults from Finalize's return on: the scan row is completed in
\* the store, then close(s.done).
SignalDone ==
    /\ Alive
    /\ aggPc = "finalized"
    /\ dbScan' = CompleteIfStored(dbScan, storeMode, scanModelID, report)
    /\ aggPc' = "done"
    /\ UNCHANGED <<results, aggRes, aggI, report, finalizeCount, hProcessed,
                   dbFindings>>
    /\ aggUnchanged

mainUnchanged ==
    UNCHANGED <<tree, workers, disableAI, fastMode, cancelled, walkIdx,
                walkPc, jobs, jobsClosed, wPc, wJob, wRes, wg, results, aggPc, aggRes, aggI,
                report, finalizeCount, hPut, hRecv, hSent, hProcessed,
                hInFlight, whitelist, scanVars,
                textVars, fnVars, wlVars, storeVars, cliVars, srvVars>>

\* WaitWorkers with the bug of not joining the workers.
WaitWorkersNoJoin ==
    /\ Alive
    /\ mainPc = "wait"
    /\ mainPc' = "close"
    /\ UNCHANGED <<panicked, resultsClosed>>
    /\ mainUnchanged

\* Wait(), s.wg.Wait() returns: every worker has called wg.Done().
WaitWorkers ==
    /\ Alive
    /\ mainPc = "wait"
    /\ wg = 0
    /\ mainPc' = "close"
    /\ UNCHANGED <<panicked, resultsClosed>>
    /\ mainUnchanged

\* Wait(), close(s.results); closing a closed channel panics.
CloseResults ==
    /\ Alive
    /\ mainPc = "close"
    /\ IF resultsClosed
       THEN /\ panicked' = "close of closed channel"
            /\ mainPc' = "panic"
            /\ UNCHANGED resultsClosed
       ELSE /\ resultsClosed' = TRUE
            /\ mainPc' = "join"
            /\ UNCHANGED panicked
    /\ mainUnchanged

\* Wait(), "<-s.done" returns and so does Wait().
WaitDone ==
    /\ Alive
    /\ mainPc = "join"
    /\ aggPc = "done"
    /\ mainPc' = "returned"
    /\ UNCHANGED <<panicked, resultsClosed>>
    /\ mainUnchanged

----------------------------------------------------------------------------
(* The pipeline specification: one NewScanner, Start() and Wait().         *)

ScanOff ==
    /\ sfPc = "off"
    /\ sfIn = Catalogue[1]
    /\ sfRes = NewResult(0)
    /\ sfAi = <<>>
    /\ sfI = 0
    /\ sfWl0 = {}
    /\ sfSeen = <<>>
    /\ sfCalls = <<>>

TextOff ==
    /\ txPc = "off"
    /\ txFile = [size |-> 0, fill |-> 32, occs |-> {}]
    /\ txOffset = 0
    /\ txOverlap = 0
    /\ txMatches = <<>>

\* The whitelist file as NewWhitelist found it: it holds the items loaded.
WlLoadedFromFile ==
    /\ wlFile = LinesOf(whitelist)
    /\ wlNil = FALSE
    /\ wlLoaded = whitelist
    /\ wlAdded = {}

\* The store before Start(), all its operations working.
StoreOff ==
    /\ storeMode = "ok"
    /\ scanModelID = 0
    /\ dbScan = NoScan
    /\ dbFindings = <<>>

\* main is running.
CliOff ==
    /\ exitCode = -1
    /\ reportSaved = FALSE

\* The review server is not part of the specification.
ServerOff ==
    /\ srvReq = <<>>
    /\ srvPc = <<>>
    /\ srvStatus = <<>>
    /\ srvMu = 0
    /\ scanning = FALSE
    /\ cfgRootPath = "."
    /\ goPc = <<>>
    /\ srvReport = 0
    /\ srvDash = "none"

FnOff ==
    /\ fnPc = "off"
    /\ fnName = "none"
    /\ fnIn = <<>>
    /\ fnOut = <<>>

\* NewScanner: the channels, the context, the report, the whitelist.
NewScanner ==
    /\ cancelled = FALSE
    /\ panicked = "none"
    /\ walkIdx = 1
    /\ walkPc = "idle"
    /\ jobs = <<>>
    /\ jobsClosed = 0
    /\ wPc = [w \in 1..workers |-> "idle"]
    /\ wJob = [w \in 1..workers |-> 0]
    /\ wRes = [w \in 1..workers |-> NewResult(0)]
    /\ wg = 0
    /\ results = <<>>
    /\ resultsClosed = FALSE
    /\ aggPc = "idle"
    /\ aggRes = NewResult(0)
    /\ aggI = 0
    /\ report = NewReport
    /\ finalizeCount = 0
    /\ hPut = <<>>
    /\ hRecv = [j \in 1..Len(tree) |-> 0]
    /\ hSent = <<>>
    /\ hProcessed = <<>>
    /\ hInFlight = {}

Init ==
    /\ workers \in 1..MaxWorkers
    /\ \E start \in TreeStarts, len \in 0..MaxLen(workers) :
          tree = Tree(start, len)
    /\ disableAI \in BOOLEAN
    /\ fastMode \in BOOLEAN
    /\ whitelist \in {{}, {<<"a">>}}
    /\ mainPc = "init"
    /\ NewScanner
    /\ ScanOff
    /\ TextOff
    /\ FnOff
    /\ WlLoadedFromFile
    /\ StoreOff
    /\ CliOff
    /\ ServerOff

Worker(w) ==
    \/ WorkerRecv(w)
    \/ WorkerExit(w)
    \/ WorkerCancelled(w)
    \/ WorkerSelect(w)
    \/ WorkerScan(w)
    \/ WorkerSend(w)

Walker == WalkSkip \/ WalkSend \/ WalkCancelled \/ WalkClose

Aggregator == Receive \/ ProcessResult \/ SaveOne \/ Finalize \/ SignalDone

Wait == WaitWorkers \/ CloseResults \/ WaitDone

\* Whether Start()/Wait() can take a step: wg.Wait() blocks until the counter
\* is zero, and "<-s.done" until done is closed.
MainCanStep ==
    IF mainPc = "wait" THEN wg = 0
    ELSE IF mainPc = "join" THEN aggPc = "done"
    ELSE mainPc \in {"init", "close"}

\* Whether walkFiles can take a step: its select blocks while the jobs
\* channel is full and the context is not cancelled.
WalkerCanStep ==
    /\ walkPc = "walk"
    /\ IF walkIdx <= Len(tree) /\ EmitsJob(tree[walkIdx])
       THEN Len(jobs) < ChanCap \/ cancelled
       ELSE TRUE

\* Whether worker w can take a step: the receive blocks on an empty open jobs
\* channel and the send on a full results channel.
WorkerCanStep(w) ==
    IF wPc[w] = "recv" THEN jobs # <<>> \/ jobsClosed > 0
    ELSE IF wPc[w] = "send" THEN Len(results) < ChanCap \/ resultsClosed
    ELSE wPc[w] \in {"select", "scan"}

\* Whether processResults can take a step: the range blocks on an empty open
\* results channel.
AggregatorCanStep ==
    IF aggPc = "loop" THEN results # <<>> \/ resultsClosed
    ELSE aggPc \in {"add", "save", "finalized"}

\* Whether some goroutine of the program can take a step.
CanStep ==
    /\ Alive
    /\ \/ MainCanStep
       \/ WalkerCanStep
       \/ \E w \in 1..workers : WorkerCanStep(w)
       \/ AggregatorCanStep

\* Every step of the program itself (Cancel is its caller's).
Program ==
    \/ Start
    \/ Walker
    \/ \E w \in 1..workers : Worker(w)
    \/ Aggregator
    \/ Wait

Next == Program \/ Cancel \/ PanicExit

Spec == Init /\ [][Next]_vars

----------------------------------------------------------------------------
(* The command line program (cmd/scanner/main.go) without --serve: the     *)
(* classifier is pinged, then one scan runs with a store in which one      *)
(* operation may fail, the reports are written and main returns.           *)

\* The longest directory walk of a run of the program.
MaxRunEntries == 4

cliUnchanged ==
    UNCHANGED <<tree, workers, disableAI, fastMode, cancelled, panicked,
                walkIdx, walkPc, jobs, jobsClosed, wPc, wJob, wRes, wg,
                results, resultsClosed, aggPc, aggRes, aggI, report, finalizeCount,
                hPut, hRecv, hSent, hProcessed, hInFlight, whitelist,
                scanVars, textVars, fnVars, wlVars, storeVars, srvVars>>

\* main, "if err := aiClient.Ping(); err != nil { ...; return }": on a
\* failed ping main returns, which ends the process with exit code 0;
\* otherwise main goes on to NewScanner.
MainPing ==
    /\ Alive
    /\ mainPc = "main"
    /\ \E pingOk \in BOOLEAN :
          /\ mainPc' = IF pingOk THEN "init" ELSE "aborted"
          /\ exitCode' = IF pingOk THEN exitCode ELSE 0
    /\ UNCHANGED reportSaved
    /\ cliUnchanged

\* main after Wait(): SaveJSON and SaveHTML write the reports or fail (the
\* error is printed), and main returns.
MainExit ==
    /\ Alive
    /\ mainPc = "returned"
    /\ \E saved \in BOOLEAN : reportSaved' = saved
    /\ mainPc' = "exited"
    /\ exitCode' = 0
    /\ cliUnchanged

InitRun ==
    /\ workers = 1
    /\ \E start \in TreeStarts, len \in 0..MaxRunEntries :
          tree = Tree(start, len)
    /\ disableAI \in BOOLEAN
    /\ fastMode = FALSE
    /\ whitelist = {}
    /\ mainPc = "main"
    /\ NewScanner
    /\ ScanOff
    /\ TextOff
    /\ FnOff
    /\ WlLoadedFromFile
    /\ storeMode \in StoreModes
    /\ scanModelID = 0
    /\ dbScan = NoScan
    /\ dbFindings = <<>>
    /\ CliOff
    /\ ServerOff

NextRun == MainPing \/ Next \/ MainExit

SpecRun == InitRun /\ [][NextRun]_vars

----------------------------------------------------------------------------
(* The single-scan specification: one call of scanFile, its loop over the  *)
(* classifier findings taken one finding at a time, while the review       *)
(* server's whitelist handler may add values.                              *)

PipelineOff ==
    /\ tree = <<>>
    /\ workers = 1
    /\ fastMode = FALSE
    /\ mainPc = "off"
    /\ NewScanner

scanUnchanged ==
    UNCHANGED <<pipeVars, sfIn, sfWl0, textVars, fnVars, wlNil, wlLoaded,
                storeVars, cliVars, srvVars>>

\* scanFile from its entry to the return of AnalyzeFile (or to its return
\* when the classifier is not consulted or its call fails).
ScanBegin ==
    /\ sfPc = "idle"
    /\ \E p \in {ScanPrefix(1, sfIn, disableAI)} :
          /\ sfPc' = p.kind
          /\ sfRes' = p.res
          /\ sfAi' = p.ai
          /\ sfCalls' = IF p.called
                        THEN << <<BuildContext(1, sfIn.matches),
                                  UniqueTypes(sfIn.matches, <<>>)>> >>
                        ELSE <<>>
    /\ sfI' = 1
    /\ UNCHANGED <<whitelist, wlFile, wlAdded, sfSeen>>
    /\ scanUnchanged

\* performAIAnalysis, one iteration of "for _, f := range aiFindings".
ScanFilter ==
    /\ sfPc = "filter"
    /\ sfI <= Len(sfAi)
    /\ sfRes' = [sfRes EXCEPT
                    !.Findings = FilterOne(sfRes.Findings, sfAi[sfI], whitelist)]
    /\ sfSeen' = Append(sfSeen, whitelist)
    /\ sfI' = sfI + 1
    /\ UNCHANGED <<whitelist, wlFile, wlAdded, sfPc, sfAi, sfCalls>>
    /\ scanUnchanged

\* performAIAnalysis and scanFile return.
ScanReturn ==
    /\ sfPc = "filter"
    /\ sfI > Len(sfAi)
    /\ sfPc' = "done"
    /\ UNCHANGED <<whitelist, wlFile, wlAdded, sfRes, sfAi, sfI, sfSeen, sfCalls>>
    /\ scanUnchanged

\* handleWhitelist: Whitelist.Add(req.Value) while the scan runs.
ScanWhitelistAdd ==
    /\ sfPc \in {"idle", "filter"}
    /\ \E v \in AddValues, io \in AppendOutcomes :
          /\ whitelist' = AddToItems(whitelist, wlNil, v)
          /\ wlFile' = AddToFile(wlFile, whitelist, wlNil, v, io)
          /\ wlAdded' = IF TrimSpace(v) = <<>> THEN wlAdded
                        ELSE wlAdded \cup {TrimSpace(v)}
    /\ UNCHANGED <<sfPc, sfRes, sfAi, sfI, sfSeen, sfCalls>>
    /\ scanUnchanged

InitScan ==
    /\ PipelineOff
    /\ disableAI \in BOOLEAN
    /\ whitelist \in SUBSET WlValues
    /\ sfPc = "idle"
    /\ sfIn \in ScanEntries
    /\ sfRes = NewResult(0)
    /\ sfAi = <<>>
    /\ sfI = 0
    /\ sfWl0 = whitelist
    /\ sfSeen = <<>>
    /\ sfCalls = <<>>
    /\ TextOff
    /\ FnOff
    /\ WlLoadedFromFile
    /\ StoreOff
    /\ CliOff
    /\ ServerOff

NextScan == ScanBegin \/ ScanFilter \/ ScanReturn \/ ScanWhitelistAdd

SpecScan == InitScan /\ [][NextScan]_vars

----------------------------------------------------------------------------
(* The plain-text extractor (internal/extractor/text.go): one call of      *)
(* TextScanner.Scan on a file, taken read by read. A file is given by its  *)
(* size, its filler byte and the keywords in it; offsets count from 0 and  *)
(* a byte is its value 0..255.                                             *)

\* const bufSize = 64 * 1024.
bufSize == 65536

\* const overlapSize = 256.
overlapSize == 256

\* BaseRegexDetector.Detect: the bytes of context on each side of a match.
SnippetMargin == 20

\* The most keywords in a file of the model.
MaxOccs == 3

Min(a, b) == IF a < b THEN a ELSE b
Max(a, b) == IF a > b THEN a ELSE b

\* The text the keyword patterns match in the files of the model, as byte
\* values: "CVV" for financialKeywords and "SSN" for idKeywords.
Keyword(kind) ==
    IF kind = "Financial" THEN <<67, 86, 86>> ELSE <<83, 83, 78>>

\* runRegexChecks, detectorsList: the order of the detectors that match in
\* the files of the model.
DetectorsList == <<"Financial", "OfficialID">>

\* A keyword of the given kind that starts at offset at of the file.
NewOcc(kind, at) == [kind |-> kind, at |-> at]

\* Whether keyword o covers offset p.
Covers(o, p) == o.at <= p /\ p < o.at + Len(Keyword(o.kind))

\* The byte at offset p of file f.
ByteAt(f, p) ==
    IF \E o \in f.occs : Covers(o, p)
    THEN Keyword((CHOOSE o \in f.occs : Covers(o, p)).kind)
             [p - (CHOOSE o \in f.occs : Covers(o, p)).at + 1]
    ELSE f.fill

\* A sanitizeBytes that tests "b >= 32" only, and so keeps the DEL byte.
sanitizeByteKeepsDel(b) ==
    IF b >= 32 \/ b = 9 \/ b = 10 \/ b = 13 THEN b ELSE 32

\* sanitizeBytes, the loop body on the byte value b (0..255): the byte
\* written to out[i].
sanitizeByte(b) ==
    IF (b >= 32 /\ b <= 126) \/ b = 9 \/ b = 10 \/ b = 13 \/ b > 127
    THEN b ELSE 32

\* sanitizeBytes: out has the length of data and is filled byte by byte;
\* data is only read.
sanitizeBytes(data) == [i \in 1..Len(data) |-> sanitizeByte(data[i])]

\* The bytes a..b-1 of f, as Scan hands them to sanitizeBytes.
FileBytes(f, a, b) == [i \in 1..(b - a) |-> ByteAt(f, a + i - 1)]

\* The keywords of a kind that lie wholly in the chunk a..b-1 of f.
OccsIn(f, a, b, kind) ==
    {o \in f.occs : o.kind = kind /\ a <= o.at
                        /\ o.at + Len(Keyword(kind)) <= b}

\* FindAllStringIndex returns its matches from left to right.
RECURSIVE SortByAt(_)
SortByAt(S) ==
    IF S = {} THEN <<>>
    ELSE <<CHOOSE o \in S : \A q \in S : o.at <= q.at>>
             \o SortByAt(S \ {CHOOSE o \in S : \A q \in S : o.at <= q.at})

\* BaseRegexDetector.Detect, one match: the offset is relative to the
\* chunk, the snippet is clipped to the chunk.
DetectMatch(f, a, b, o) ==
    NewMatch(o.kind,
             sanitizeBytes(FileBytes(f, Max(o.at - SnippetMargin, a),
                   Min(o.at + Len(Keyword(o.kind)) + SnippetMargin, b))),
             Keyword(o.kind),
             o.at - a)

DetectAll(f, a, b, os) == [i \in 1..Len(os) |-> DetectMatch(f, a, b, os[i])]

\* BaseRegexDetector.Detect of one detector on the chunk a..b-1 of f.
Detect(f, a, b, kind) == DetectAll(f, a, b, SortByAt(OccsIn(f, a, b, kind)))

\* runRegexChecks, "found[i].Offset += baseOffset".
AddBaseOffset(found, baseOffset) ==
    [i \in 1..Len(found) |-> [found[i] EXCEPT !.Offset = @ + baseOffset]]

\* runRegexChecks on the chunk a..b-1 of f: detector after detector.
runRegexChecks(f, a, b, baseOffset) ==
    AddBaseOffset(Detect(f, a, b, DetectorsList[1]), baseOffset)
        \o AddBaseOffset(Detect(f, a, b, DetectorsList[2]), baseOffset)

\* A chunkStartOffset that forgets the overlap prepended to the chunk.
ChunkStartOffsetNoOverlap(offset, overlapLen) == offset

\* Scan, chunkStartOffset.
ChunkStartOffset(offset, overlapLen) ==
    IF offset - overlapLen < 0 THEN 0 ELSE offset - overlapLen

\* reader.Read(buf): the buffer is filled unless the file ends first or the
\* reader returns fewer bytes, as io.Reader allows; f.short = <<at, n>> is
\* the read of n bytes the reader of f returns at offset at, <<>> if its
\* reads are all full.
ReadLen(f, offset) ==
    IF f.short # <<>> /\ f.short[1] = offset /\ f.short[2] < f.size - offset
    THEN f.short[2]
    ELSE Min(bufSize, f.size - offset)

textUnchanged ==
    UNCHANGED <<pipeVars, whitelist, scanVars, txFile, fnVars, wlVars,
                storeVars, cliVars, srvVars>>

\* Scan, one iteration with n > 0: the overlap and the bytes read are
\* scanned together and every match found is appended.
TextRead ==
    /\ txPc = "read"
    /\ txOffset < txFile.size
    /\ \E n \in {ReadLen(txFile, txOffset)} :
          /\ txMatches' = txMatches
                \o runRegexChecks(txFile, txOffset - txOverlap, txOffset + n,
                                  ChunkStartOffset(txOffset, txOverlap))
          /\ txOverlap' = IF n >= overlapSize THEN overlapSize ELSE n
          /\ txOffset' = txOffset + n
    /\ UNCHANGED txPc
    /\ textUnchanged

\* Scan, Read returns io.EOF: the matches are returned.
TextEOF ==
    /\ txPc = "read"
    /\ txOffset = txFile.size
    /\ ~txFile.readErr
    /\ txPc' = "done"
    /\ UNCHANGED <<txOffset, txOverlap, txMatches>>
    /\ textUnchanged

\* Scan, Read returns another error: nil and the error are returned.
TextReadError ==
    /\ txPc = "read"
    /\ txOffset = txFile.size
    /\ txFile.readErr
    /\ txPc' = "failed"
    /\ txMatches' = <<>>
    /\ UNCHANGED <<txOffset, txOverlap>>
    /\ textUnchanged

\* The sizes of the files of the model: empty, less than the overlap, one
\* full buffer, two chunks, three chunks.
TextSizes == {0, overlapSize - 1, bufSize, bufSize + 10, 2 * bufSize + 3}

\* Where the keywords of the files lie: within the first chunk, within its
\* last overlapSize bytes, across the start of those, across the end of the
\* first buffer (two places), in the second buffer, at the end of the
\* second buffer.
TextOccs ==
    {NewOcc("OfficialID", 5),
     NewOcc("OfficialID", bufSize - overlapSize - 1),
     NewOcc("OfficialID", bufSize - 100),
     NewOcc("Financial", bufSize - 50),
     NewOcc("OfficialID", bufSize - 10),
     NewOcc("Financial", bufSize - 2),
     NewOcc("OfficialID", bufSize - 1),
     NewOcc("OfficialID", bufSize + 4),
     NewOcc("Financial", 2 * bufSize - 3)}

\* The short reads of the readers of the model: none, one byte after a
\* full buffer, more than the overlap after a full buffer, the first read.
TextShorts == {<<>>, <<bufSize, 1>>, <<bufSize, overlapSize + 44>>, <<0, 100>>}

TextFiles ==
    {[size |-> n, fill |-> b, occs |-> os, readErr |-> e, short |-> sh] :
        n \in TextSizes, b \in {32, 0}, e \in BOOLEAN,
        os \in {S \in SUBSET TextOccs : Cardinality(S) <= MaxOccs},
        sh \in TextShorts}

\* Every keyword of f lies within the file and no two keywords share a byte.
FitsFile(f) ==
    /\ \A o \in f.occs : o.at + Len(Keyword(o.kind)) <= f.size
    /\ \A o, q \in f.occs :
          o # q => (o.at + Len(Keyword(o.kind)) <= q.at
                        \/ q.at + Len(Keyword(q.kind)) <= o.at)

InitText ==
    /\ PipelineOff
    /\ ScanOff
    /\ disableAI = FALSE
    /\ whitelist = {}
    /\ txPc = "read"
    /\ txFile \in {f \in TextFiles : FitsFile(f)}
    /\ txOffset = 0
    /\ txOverlap = 0
    /\ txMatches = <<>>
    /\ FnOff
    /\ WlLoadedFromFile
    /\ StoreOff
    /\ CliOff
    /\ ServerOff

NextText == TextRead \/ TextEOF \/ TextReadError

SpecText == InitText /\ [][NextText]_vars

----------------------------------------------------------------------------
(* The functions of the extractor package that take a value and return a   *)
(* value (sanitizeBytes, the credit-card and IBAN checks), each called     *)
(* once on an argument drawn from a bounded set.                           *)

\* The longest buffer handed to sanitizeBytes.
MaxBufLen == 3

\* The byte values the longer buffers are made of: the ends of each range
\* sanitizeBytes tells apart.
SampleBytes == {0, 9, 10, 13, 31, 32, 126, 127, 128, 255}

\* The sequences over S of length n.
SeqsOfLen(S, n) == [1..n -> S]

\* The buffers sanitizeBytes is called on: every single byte, and every
\* buffer of up to MaxBufLen sample bytes.
SanitizeInputs ==
    {<<b>> : b \in 0..255}
        \cup UNION {SeqsOfLen(SampleBytes, n) : n \in 0..MaxBufLen}

fnUnchanged ==
    UNCHANGED <<pipeVars, whitelist, scanVars, textVars, fnName, fnIn,
                wlVars, storeVars, cliVars, srvVars>>

\* sanitizeBytes(data): a new buffer is returned, data is left as it was.
CallSanitizeBytes ==
    /\ fnPc = "call"
    /\ fnName = "sanitizeBytes"
    /\ fnOut' = sanitizeBytes(fnIn)
    /\ fnPc' = "returned"
    /\ fnUnchanged

\* unicode.IsDigit on a rune of a candidate (ASCII only: the pattern's \d
\* matches '0'..'9' and nothing else).
IsDigit(r) == r >= 48 /\ r <= 57

\* cleanCC: the digits of s, in order.
cleanCC(s) == SelectSeq(s, IsDigit)

\* A luhnCheck that takes the last digit of a doubled value and adds
\* nothing to it.
luhnDigitNoCarry(n, alternate) ==
    IF alternate THEN (IF n * 2 > 9 THEN (n * 2) % 10 ELSE n * 2) ELSE n

\* luhnCheck, the loop body: what is added to sum for the digit n.
luhnDigit(n, alternate) ==
    IF alternate THEN (IF n * 2 > 9 THEN ((n * 2) % 10) + 1 ELSE n * 2) ELSE n

\* luhnCheck, the loop "for i := len(cc) - 1; i >= 0; i--" from position i
\* (1-based) down; cc[i] - '0' is a byte subtraction.
RECURSIVE luhnSum(_, _, _)
luhnSum(cc, i, alternate) ==
    IF i < 1 THEN 0
    ELSE luhnDigit((cc[i] - 48) % 256, alternate)
             + luhnSum(cc, i - 1, ~alternate)

luhnCheck(cc) == luhnSum(cc, Len(cc), FALSE) % 10 = 0

\* CreditCardDetector.Detect, the loop body: whether the candidate with
\* the value v is appended to verified.
CreditCardVerified(v) ==
    IF Len(cleanCC(v)) < 13 \/ Len(cleanCC(v)) > 19
    THEN FALSE
    ELSE luhnCheck(cleanCC(v))

\* broadCCPattern, the class "[ -]".
IsSep(c) == c = 32 \/ c = 45

\* A word character of the pattern's "\b": [0-9A-Za-z_].
IsWordChar(c) ==
    \/ c \in 48..57
    \/ c \in 65..90
    \/ c \in 97..122
    \/ c = 95

\* "\b" in front of s[p] (p = Len(s) + 1: at the end of s).
WordBoundary(s, p) ==
    (p > 1 /\ IsWordChar(s[p - 1])) # (p <= Len(s) /\ IsWordChar(s[p]))

\* The first of two ways to go on that succeeds (0: the way fails).
FirstOf(a, b) == IF a # 0 THEN a ELSE b

\* broadCCPattern, the match a backtracking engine finds first (Go's
\* regexp is leftmost-first). ccAfter: n repetitions of "\d[ -]*?" are
\* done and s[p] is next; the greedy {13,19} prefers one repetition more
\* to the closing "\b". ccLazy: within the n-th repetition's "[ -]*?",
\* which prefers leaving to taking one separator more. The value is the
\* position after the match, or 0.
RECURSIVE ccAfter(_, _, _)
RECURSIVE ccLazy(_, _, _)
ccAfter(s, p, n) ==
    FirstOf(IF n < 19 /\ p <= Len(s) /\ IsDigit(s[p])
            THEN ccLazy(s, p + 1, n + 1) ELSE 0,
            IF n >= 13 /\ WordBoundary(s, p) THEN p ELSE 0)

ccLazy(s, p, n) ==
    FirstOf(ccAfter(s, p, n),
            IF p <= Len(s) /\ IsSep(s[p]) THEN ccLazy(s, p + 1, n) ELSE 0)

\* broadCCPattern tried at s[p]: the position after the match, or 0.
ccMatchAt(s, p) ==
    IF WordBoundary(s, p) /\ IsDigit(s[p]) THEN ccLazy(s, p + 1, 1) ELSE 0

\* Pattern.FindAllStringIndex(content, -1) from s[p] on: the successive
\* leftmost matches, which do not overlap, as <<start, end>> with start
\* the 0-based offset and end the offset after the match.
RECURSIVE FindAllStringIndex(_, _)
FindAllStringIndex(s, p) ==
    IF p > Len(s) THEN <<>>
    ELSE IF ccMatchAt(s, p) # 0
    THEN <<<<p - 1, ccMatchAt(s, p) - 1>>>>
             \o FindAllStringIndex(s, ccMatchAt(s, p))
    ELSE FindAllStringIndex(s, p + 1)

\* BaseRegexDetector.Detect, the loop body: the match for loc, with the
\* snippet of 20 bytes to either side.
CardMatch(content, loc) ==
    NewMatch("CreditCard",
             SubSeq(content, Max(loc[1] - 20, 0) + 1,
                    Min(loc[2] + 20, Len(content))),
             SubSeq(content, loc[1] + 1, loc[2]),
             loc[1])

\* BaseRegexDetector.Detect with the credit-card pattern: the candidates.
BaseDetect(content) ==
    [i \in 1..Len(FindAllStringIndex(content, 1)) |->
        CardMatch(content, FindAllStringIndex(content, 1)[i])]

\* CreditCardDetector.Detect: the candidates that are verified.
CreditCardDetect(content) ==
    SelectSeq(BaseDetect(content), LAMBDA m : CreditCardVerified(m.Value))

\* The digits of the numbers but for the last two: 13, 16 and 19 digits
\* in all (the fewest, the usual and the most broadCCPattern matches).
CardStems ==
    {<<52, 50, 50, 50, 50, 50, 50, 50, 50, 50, 50>>,
     <<52, 49, 49, 49, 49, 49, 49, 49, 49, 49, 49, 49, 49, 49>>,
     <<54, 48, 49, 49, 57, 56, 55, 54, 53, 52, 51, 50, 49, 48, 53, 55, 57>>}

\* The separators written between the groups of digits: none (0), spaces
\* and hyphens.
CardSeparators == {0, 32, 45}

\* The digits d with the separator sep after every fourth digit but the
\* last.
Grouped(d, sep) ==
    IF sep = 0 THEN d
    ELSE [i \in 1..(Len(d) + (Len(d) - 1) \div 4) |->
             IF i % 5 = 0 THEN sep ELSE d[i - i \div 5]]

\* Card numbers as they are written in a text.
CardNumbers ==
    {Grouped(stem \o <<a, b>>, sep) :
        stem \in CardStems, a \in 48..57, b \in 48..57,
        sep \in CardSeparators}

\* "4111-1111-1111-1111" and "4111 1111 1111 1112".
CardKept == Grouped(<<52>> \o [i \in 1..15 |-> 49], 45)
CardDropped == Grouped(<<52>> \o [i \in 1..14 |-> 49] \o <<50>>, 32)

\* The contents handed to CreditCardDetector.Detect: a card number alone,
\* two numbers in a sentence ("x: ", ", "), a number that runs into a
\* letter, and a text without digits.
CardContents ==
    CardNumbers
        \cup {<<120, 58, 32>> \o CardKept \o <<44, 32>> \o CardDropped,
              <<120, 58, 32>> \o CardDropped \o <<44, 32>> \o CardKept,
              CardKept \o <<120>>,
              <<120>> \o CardKept,
              CardKept \o <<32, 45, 32>>,
              <<120, 32, 121>>}

\* CreditCardDetector.Detect on one content.
CallCreditCard ==
    /\ fnPc = "call"
    /\ fnName = "CreditCardDetector.Detect"
    /\ fnOut' = CreditCardDetect(fnIn)
    /\ fnPc' = "returned"
    /\ fnUnchanged

\* An IBAN check that leaves the country code and the check digits in
\* front.
rearrangeNothing(iban) == iban

\* validateIBAN, "rearranged := iban[4:] + iban[:4]".
rearrange(iban) == SubSeq(iban, 5, Len(iban)) \o SubSeq(iban, 1, 4)

\* validateIBAN, the loop body: what is appended to numericString for the
\* rune r, a digit as it is and a letter as strconv.Itoa(r - 'A' + 10); <<>>
\* stands for "return false" on any other rune.
numericOf(r) ==
    IF r >= 48 /\ r <= 57 THEN <<r>>
    ELSE IF r >= 65 /\ r <= 90
         THEN <<48 + ((r - 65 + 10) \div 10), 48 + ((r - 65 + 10) % 10)>>
         ELSE <<>>

\* validateIBAN, numericString after the loop over rearranged from rune i.
RECURSIVE numericString(_, _)
numericString(rearranged, i) ==
    IF i > Len(rearranged) THEN <<>>
    ELSE numericOf(rearranged[i]) \o numericString(rearranged, i + 1)

\* big.Int.SetString(numericString, 10) and Mod(n, 97): the remainder of
\* the decimal number, taken digit by digit so that every intermediate
\* value stays below 970.
RECURSIVE mod97(_, _, _)
mod97(digits, i, rem) ==
    IF i > Len(digits) THEN rem
    ELSE mod97(digits, i + 1, (rem * 10 + (digits[i] - 48)) % 97)

\* validateIBAN.
validateIBAN(iban) ==
    IF Len(iban) < 15 \/ Len(iban) > 34 THEN FALSE
    ELSE IF \E i \in 1..Len(iban) : numericOf(iban[i]) = <<>> THEN FALSE
    ELSE mod97(numericString(rearrange(iban), 1), 1, 0) = 1

\* The candidates of ibanPattern but for their check digits: of 22, 15, 14
\* and 34 characters in all (34 is the most the pattern matches, 15 the
\* fewest validateIBAN lets through).
IbanStems ==
    {[country |-> <<71, 66>>,
      bban |-> <<87, 69, 83, 84, 49, 50, 51, 52, 53, 54, 57, 56, 55, 54, 53, 52, 51, 50>>],
     [country |-> <<78, 79>>,
      bban |-> <<56, 54, 48, 49, 49, 49, 49, 55, 57, 52, 55>>],
     [country |-> <<78, 79>>,
      bban |-> <<56, 54, 48, 49, 49, 49, 49, 55, 57, 52>>],
     [country |-> <<77, 84>>,
      bban |-> <<77, 65, 76, 84, 48, 49, 49, 48, 48, 48, 48, 49, 50, 51, 52, 53, 77, 84, 76, 67, 65, 83, 84, 48, 48, 49, 83, 88, 89, 90>>]}

\* The candidates BaseRegexDetector.Detect hands to validateIBAN: each stem
\* with every pair of check digits.
IbanCandidates ==
    {stem.country \o <<a, b>> \o stem.bban :
        stem \in IbanStems, a \in 48..57, b \in 48..57}

\* IBANDetector.Detect on one candidate.
CallIBAN ==
    /\ fnPc = "call"
    /\ fnName = "IBANDetector.Detect"
    /\ fnOut' = validateIBAN(fnIn)
    /\ fnPc' = "returned"
    /\ fnUnchanged

\* The texts of the spreadsheet cells and PDF pages of the model, given like
\* a file by size, filler and keywords: "SSN", " CVV ", "SSN  SSN",
\* "CVV SSN" and "  " (no keyword). They hold printable bytes only.
PartTexts ==
    {[size |-> 3, fill |-> 32, occs |-> {NewOcc("OfficialID", 0)}],
     [size |-> 5, fill |-> 32, occs |-> {NewOcc("Financial", 1)}],
     [size |-> 8, fill |-> 32,
      occs |-> {NewOcc("OfficialID", 0), NewOcc("OfficialID", 5)}],
     [size |-> 7, fill |-> 32,
      occs |-> {NewOcc("Financial", 0), NewOcc("OfficialID", 4)}],
     [size |-> 2, fill |-> 32, occs |-> {}]}

\* ExcelScanner.Scan, "if colIdx > 1000".
ExcelColLimit == 1000

\* The cell of the lowest column among the non-empty cells left of a row.
FirstCell(cells) == CHOOSE c \in cells : \A d \in cells : c.col <= d.col

\* ExcelScanner.Scan, the body of the loop over the cells of a row for a
\* non-empty cell: runRegexChecks(cellValue, int64(rowIdx)) and the append.
\* scanned lists the cells handed to runRegexChecks.
ScanCell(acc, c, sheet, rowIdx) ==
    [acc EXCEPT
        !.matches = @ \o runRegexChecks(c.text, 0, c.text.size, rowIdx),
        !.scanned = Append(@, [sheet |-> sheet, row |-> rowIdx,
                               col |-> c.col])]

\* ExcelScanner.Scan, "for colIdx, cellValue := range row": an empty cell
\* takes the continue and changes nothing, so a row is given by its
\* non-empty cells; after a non-empty cell is scanned the loop ends if
\* colIdx > 1000.
RECURSIVE ScanCells(_, _, _, _)
ScanCells(cells, sheet, rowIdx, acc) ==
    IF cells = {} THEN acc
    ELSE IF FirstCell(cells).col > ExcelColLimit
    THEN ScanCell(acc, FirstCell(cells), sheet, rowIdx)
    ELSE ScanCells(cells \ {FirstCell(cells)}, sheet, rowIdx,
                   ScanCell(acc, FirstCell(cells), sheet, rowIdx))

\* ExcelScanner.Scan, "for rows.Next()": rowIdx counts from 1; an error of
\* rows.Columns() ends the sheet.
RECURSIVE ScanRows(_, _, _, _)
ScanRows(rows, sheet, rowIdx, acc) ==
    IF rows = <<>> THEN acc
    ELSE IF Head(rows).err THEN acc
    ELSE ScanRows(Tail(rows), sheet, rowIdx + 1,
                  ScanCells(Head(rows).cells, sheet, rowIdx + 1, acc))

\* ExcelScanner.Scan, the loop over the sheets: a sheet whose rows cannot be
\* read is skipped.
RECURSIVE ScanSheets(_, _, _)
ScanSheets(sheets, sheet, acc) ==
    IF sheets = <<>> THEN acc
    ELSE IF Head(sheets).err THEN ScanSheets(Tail(sheets), sheet + 1, acc)
    ELSE ScanSheets(Tail(sheets), sheet + 1,
                    ScanRows(Head(sheets).rows, sheet, 0, acc))

\* ExcelScanner.Scan: nil and the error when the workbook cannot be opened.
ExcelScan(book) ==
    IF book.err THEN [err |-> TRUE, matches |-> <<>>, scanned |-> <<>>]
    ELSE ScanSheets(book.sheets, 1,
                    [err |-> FALSE, matches |-> <<>>, scanned |-> <<>>])

\* The columns that hold a non-empty cell in the rows of the model.
ExcelCols ==
    {0, ExcelColLimit, ExcelColLimit + 1, ExcelColLimit + 2}

\* The rows of the model: any choice of non-empty columns, each cell with
\* one of two texts.
ExcelRows ==
    {[err |-> FALSE,
      cells |-> {[col |-> c, text |-> t[c]] : c \in cols}] :
        cols \in SUBSET ExcelCols,
        t \in [ExcelCols -> {x \in PartTexts : x.size \in {3, 5}}]}

NewSheet(err, rows) == [err |-> err, rows |-> rows]

\* A second sheet of one row with one cell.
SecondSheet ==
    NewSheet(FALSE,
             <<[err |-> FALSE,
                cells |-> {[col |-> 0,
                            text |-> CHOOSE x \in PartTexts : x.size = 3]}]>>)

\* The workbooks of the model: one that does not open, and one-row sheets
\* alone, followed by a row that cannot be read, or beside a sheet that
\* cannot be read and a second sheet.
ExcelBooks ==
    {[err |-> TRUE, sheets |-> <<>>]}
        \cup {[err |-> FALSE, sheets |-> <<NewSheet(FALSE, <<r>>)>>] :
                r \in ExcelRows}
        \cup {[err |-> FALSE,
               sheets |-> <<NewSheet(FALSE,
                                     <<r, [err |-> TRUE, cells |-> {}], r>>)>>] :
                r \in ExcelRows}
        \cup {[err |-> FALSE,
               sheets |-> <<NewSheet(TRUE, <<>>), NewSheet(FALSE, <<r, r>>),
                            SecondSheet>>] :
                r \in ExcelRows}

\* ExcelScanner.Scan on one workbook.
CallExcel ==
    /\ fnPc = "call"
    /\ fnName = "ExcelScanner.Scan"
    /\ fnOut' = ExcelScan(fnIn)
    /\ fnPc' = "returned"
    /\ fnUnchanged

\* getSnippet, "const contextChars = 30".
contextChars == 30

\* getSnippet(content, found) for the keyword found at offset at, the first
\* place where its text stands in the page: the bytes around it, clipped to
\* the page.
getSnippet(f, at, n) ==
    FileBytes(f, Max(at - contextChars, 0), Min(at + n + contextChars, f.size))

\* The leftmost keyword of a kind in the text f, which FindString returns.
FirstOcc(f, kind) ==
    CHOOSE o \in OccsIn(f, 0, f.size, kind) :
        \A q \in OccsIn(f, 0, f.size, kind) : o.at <= q.at

\* PDFScanner.Scan, one "if found := ...FindString(content); found != """
\* block on page i: the first match only, with the page number as offset.
PdfCheck(f, kind, i) ==
    IF OccsIn(f, 0, f.size, kind) = {} THEN <<>>
    ELSE <<NewMatch(kind,
                    getSnippet(f, FirstOcc(f, kind).at, Len(Keyword(kind))),
                    Keyword(kind), i)>>

\* PDFScanner.Scan, the body of the page loop for the keywords of the
\* model: FinancialKeywords is checked before IDKeywords; a null page and a
\* page whose text cannot be extracted are skipped.
PdfPage(page, i) ==
    IF page.null \/ page.err THEN <<>>
    ELSE PdfCheck(page.text, "Financial", i)
            \o PdfCheck(page.text, "OfficialID", i)

\* PDFScanner.Scan, "for i := 1; i <= totalPages; i++".
RECURSIVE PdfPages(_, _, _)
PdfPages(pages, i, matches) ==
    IF i > Len(pages) THEN matches
    ELSE PdfPages(pages, i + 1, matches \o PdfPage(pages[i], i))

\* PDFScanner.Scan: nil and the error when the document cannot be read.
PdfScan(doc) ==
    IF doc.err THEN [err |-> TRUE, matches |-> <<>>]
    ELSE [err |-> FALSE, matches |-> PdfPages(doc.pages, 1, <<>>)]

\* The pages of the model: a null page, a page without extractable text,
\* and a page of each text.
PdfPageSet ==
    {[null |-> TRUE, err |-> FALSE, text |-> CHOOSE x \in PartTexts : x.size = 2],
     [null |-> FALSE, err |-> TRUE, text |-> CHOOSE x \in PartTexts : x.size = 2]}
        \cup {[null |-> FALSE, err |-> FALSE, text |-> t] : t \in PartTexts}

\* The documents of the model: one that cannot be read, and every document
\* of one to three pages.
PdfDocs ==
    {[err |-> TRUE, pages |-> <<>>]}
        \cup {[err |-> FALSE, pages |-> ps] :
                ps \in UNION {SeqsOfLen(PdfPageSet, n) : n \in 1..3}}

\* PDFScanner.Scan on one document.
CallPdf ==
    /\ fnPc = "call"
    /\ fnName = "PDFScanner.Scan"
    /\ fnOut' = PdfScan(fnIn)
    /\ fnPc' = "returned"
    /\ fnUnchanged

InitFn ==
    /\ PipelineOff
    /\ ScanOff
    /\ TextOff
    /\ disableAI = FALSE
    /\ whitelist = {}
    /\ fnPc = "call"
    /\ \/ fnName = "sanitizeBytes" /\ fnIn \in SanitizeInputs
       \/ fnName = "CreditCardDetector.Detect" /\ fnIn \in CardContents
       \/ fnName = "IBANDetector.Detect" /\ fnIn \in IbanCandidates
       \/ fnName = "ExcelScanner.Scan" /\ fnIn \in ExcelBooks
       \/ fnName = "PDFScanner.Scan" /\ fnIn \in PdfDocs
    /\ fnOut = <<>>
    /\ WlLoadedFromFile
    /\ StoreOff
    /\ CliOff
    /\ ServerOff

NextFn ==
    \/ CallSanitizeBytes
    \/ CallCreditCard
    \/ CallIBAN
    \/ CallExcel
    \/ CallPdf

SpecFn == InitFn /\ [][NextFn]_vars

----------------------------------------------------------------------------
(* The whitelist specification: a whitelist as NewScanner leaves it, and   *)
(* any sequence of Add calls. The calls may come from several goroutines:  *)
(* Add trims its argument, a local step, and holds the lock w.mu from      *)
(* there to its return, so the calls take effect one after the other.      *)

\* The arguments of the Add calls.
WlAddArgs == {<<" ", "a">>, <<"a">>, <<"b">>, <<"c", " ">>, <<" ">>, <<>>}

\* The items a whitelist file may hold when it is loaded.
WlStartSets == SUBSET (WlValues \cup {<<"c">>, <<"d">>})

\* Whitelist.Add(v), with the append to the file going as io says. Add is
\* called by handleWhitelist, whose panic net/http recovers (the deferred
\* Unlock has run by then), so calls go on after a call panicked; panicked
\* records that a call did.
WlAdd ==
    /\ \E v \in WlAddArgs, io \in AppendOutcomes :
          /\ whitelist' = AddToItems(whitelist, wlNil, v)
          /\ wlFile' = AddToFile(wlFile, whitelist, wlNil, v, io)
          /\ wlAdded' = IF TrimSpace(v) = <<>> THEN wlAdded
                        ELSE wlAdded \cup {TrimSpace(v)}
          /\ panicked' = IF AddPanics(whitelist, wlNil, v)
                         THEN "assignment to entry in nil map"
                         ELSE panicked
    /\ UNCHANGED <<tree, workers, disableAI, fastMode, cancelled, mainPc,
                   walkIdx, walkPc, jobs, jobsClosed, wPc, wJob, wRes, wg,
                   results, resultsClosed, aggPc, aggRes, aggI, report, finalizeCount,
                   hPut, hRecv, hSent, hProcessed, hInFlight, scanVars,
                   textVars, fnVars, wlNil, wlLoaded, storeVars, cliVars, srvVars>>

\* NewScanner: the whitelist NewWhitelist loaded (an empty one when the
\* file does not exist), or the zero Whitelist, whose map is nil, when the
\* file could not be read.
InitWl ==
    /\ PipelineOff
    /\ ScanOff
    /\ TextOff
    /\ FnOff
    /\ StoreOff
    /\ CliOff
    /\ ServerOff
    /\ disableAI = FALSE
    /\ wlNil \in BOOLEAN
    /\ whitelist \in IF wlNil THEN {{}} ELSE WlStartSets
    /\ wlFile = LinesOf(whitelist)
    /\ wlLoaded = whitelist
    /\ wlAdded = {}

NextWl == WlAdd

SpecWl == InitWl /\ [][NextWl]_vars

----------------------------------------------------------------------------
(* The review server (internal/server/server.go): requests to /scan, each  *)
(* served by its own goroutine, the scan goroutines they start, and        *)
(* requests to the dashboard. The run of a scanner between Start() and the *)
(* return of Wait() is the pipeline specification; here it is one step.    *)

\* The most requests to /scan in a run of the server.
MaxRequests == 3

\* The requests to /scan: a POST without a path, a POST with one, a GET.
ScanRequests ==
    {[method |-> "POST", path |-> ""], [method |-> "POST", path |-> "a"],
     [method |-> "GET", path |-> "a"]}

\* handleScan, "path := r.FormValue("path"); if path == "" { path = "." }".
FormPath(req) == IF req.path = "" THEN "." ELSE req.path

\* A handleScan that does not test the flag.
ScanAdmitAlways(flag) == [pc |-> "accepted", status |-> 0]

\* handleScan under s.mu: with the flag set the request is answered with
\* 409 Conflict and returns, else it goes on (and sets the flag).
ScanAdmit(flag) ==
    IF flag THEN [pc |-> "done", status |-> 409]
    ELSE [pc |-> "accepted", status |-> 0]

srvUnchanged ==
    UNCHANGED <<tree, workers, disableAI, fastMode, cancelled, mainPc,
                walkIdx, walkPc, jobs, jobsClosed, wPc, wJob, wRes, wg,
                results, resultsClosed, aggPc, aggRes, aggI, report, finalizeCount,
                hPut, hRecv, hSent, hProcessed, hInFlight, whitelist,
                scanVars, textVars, fnVars, wlVars, storeVars, cliVars,
                srvReq>>

\* handleScan up to s.mu.Lock(): a request that is not a POST is answered
\* with 405.
ReqMethod(r) ==
    /\ Alive
    /\ srvPc[r] = "idle"
    /\ IF srvReq[r].method # "POST"
       THEN /\ srvPc' = [srvPc EXCEPT ![r] = "done"]
            /\ srvStatus' = [srvStatus EXCEPT ![r] = 405]
       ELSE /\ srvPc' = [srvPc EXCEPT ![r] = "lock"]
            /\ UNCHANGED srvStatus
    /\ UNCHANGED <<panicked, srvMu, scanning, cfgRootPath, goPc, srvReport,
                   srvDash>>
    /\ srvUnchanged

\* handleScan, s.mu.Lock().
ReqLock(r) ==
    /\ Alive
    /\ srvPc[r] = "lock"
    /\ srvMu = 0
    /\ srvMu' = r
    /\ srvPc' = [srvPc EXCEPT ![r] = "locked"]
    /\ UNCHANGED <<panicked, srvStatus, scanning, cfgRootPath, goPc,
                   srvReport, srvDash>>
    /\ srvUnchanged

\* handleScan, from "if s.scanning" to s.mu.Unlock() on either path.
ReqCheck(r) ==
    /\ Alive
    /\ srvPc[r] = "locked"
    /\ srvPc' = [srvPc EXCEPT ![r] = ScanAdmit(scanning).pc]
    /\ srvStatus' = [srvStatus EXCEPT ![r] = ScanAdmit(scanning).status]
    /\ scanning' = TRUE
    /\ srvMu' = 0
    /\ UNCHANGED <<panicked, cfgRootPath, goPc, srvReport, srvDash>>
    /\ srvUnchanged

\* handleScan, "s.cfg.RootPath = path".
ReqSetPath(r) ==
    /\ Alive
    /\ srvPc[r] = "accepted"
    /\ cfgRootPath' = FormPath(srvReq[r])
    /\ srvPc' = [srvPc EXCEPT ![r] = "spawn"]
    /\ UNCHANGED <<panicked, srvStatus, srvMu, scanning, goPc, srvReport,
                   srvDash>>
    /\ srvUnchanged

\* handleScan, the go statement and the redirect (303 See Other).
ReqSpawn(r) ==
    /\ Alive
    /\ srvPc[r] = "spawn"
    /\ goPc' = [goPc EXCEPT ![r] = "new"]
    /\ srvStatus' = [srvStatus EXCEPT ![r] = 303]
    /\ srvPc' = [srvPc EXCEPT ![r] = "done"]
    /\ UNCHANGED <<panicked, srvMu, scanning, cfgRootPath, srvReport,
                   srvDash>>
    /\ srvUnchanged

\* The scan goroutine: scanner.NewScanner(s.cfg), scanner.Start().
GoStart(r) ==
    /\ Alive
    /\ goPc[r] = "new"
    /\ goPc' = [goPc EXCEPT ![r] = "running"]
    /\ UNCHANGED <<panicked, srvPc, srvStatus, srvMu, scanning, cfgRootPath,
                   srvReport, srvDash>>
    /\ srvUnchanged

\* The scan goroutine: scanner.Wait() returns.
GoWait(r) ==
    /\ Alive
    /\ goPc[r] = "running"
    /\ goPc' = [goPc EXCEPT ![r] = "waited"]
    /\ UNCHANGED <<panicked, srvPc, srvStatus, srvMu, scanning, cfgRootPath,
                   srvReport, srvDash>>
    /\ srvUnchanged

\* A worker of the running scanner panics: the scan goroutine, which is
\* another goroutine, runs on until the runtime ends the process.
GoPanic(r) ==
    /\ Alive
    /\ goPc[r] = "running"
    /\ panicked' = "slice bounds out of range"
    /\ UNCHANGED <<srvPc, srvStatus, srvMu, scanning, cfgRootPath, goPc,
                   srvReport, srvDash>>
    /\ srvUnchanged

\* The scan goroutine: "s.report = scanner.Report" under s.mu.
GoReport(r) ==
    /\ Alive
    /\ goPc[r] = "waited"
    /\ srvMu = 0
    /\ srvReport' = r
    /\ goPc' = [goPc EXCEPT ![r] = "reported"]
    /\ UNCHANGED <<panicked, srvPc, srvStatus, srvMu, scanning, cfgRootPath,
                   srvDash>>
    /\ srvUnchanged

\* The scan goroutine returns: the deferred function clears the flag under
\* s.mu.
GoClear(r) ==
    /\ Alive
    /\ goPc[r] = "reported"
    /\ srvMu = 0
    /\ scanning' = FALSE
    /\ goPc' = [goPc EXCEPT ![r] = "exited"]
    /\ UNCHANGED <<panicked, srvPc, srvStatus, srvMu, cfgRootPath, srvReport,
                   srvDash>>
    /\ srvUnchanged

\* handleDashboard up to the choice of the page: the flag is read under
\* s.mu.RLock().
Dashboard ==
    /\ Alive
    /\ srvMu = 0
    /\ srvDash' = IF scanning THEN "loading" ELSE "history"
    /\ UNCHANGED <<panicked, srvPc, srvStatus, srvMu, scanning, cfgRootPath,
                   goPc, srvReport>>
    /\ srvUnchanged

HandleScan(r) ==
    \/ ReqMethod(r)
    \/ ReqLock(r)
    \/ ReqCheck(r)
    \/ ReqSetPath(r)
    \/ ReqSpawn(r)

ScanGoroutine(r) ==
    \/ GoStart(r)
    \/ GoWait(r)
    \/ GoPanic(r)
    \/ GoReport(r)
    \/ GoClear(r)

\* NewServer: the flag is false; no request has arrived.
InitServer ==
    /\ PipelineOff
    /\ ScanOff
    /\ TextOff
    /\ FnOff
    /\ disableAI = FALSE
    /\ whitelist = {}
    /\ WlLoadedFromFile
    /\ StoreOff
    /\ CliOff
    /\ srvReq \in [1..MaxRequests -> ScanRequests]
    /\ srvPc = [r \in 1..MaxRequests |-> "idle"]
    /\ srvStatus = [r \in 1..MaxRequests |-> 0]
    /\ srvMu = 0
    /\ scanning = FALSE
    /\ cfgRootPath = "root"
    /\ goPc = [r \in 1..MaxRequests |-> "none"]
    /\ srvReport = 0
    /\ srvDash = "none"

NextServer ==
    \/ \E r \in 1..MaxRequests : HandleScan(r)
    \/ \E r \in 1..MaxRequests : ScanGoroutine(r)
    \/ Dashboard
    \/ PanicExit

SpecServer == InitServer /\ [][NextServer]_vars

----------------------------------------------------------------------------
(* Properties.                                                             *)

\* The positions of seq whose element has the path j.
PositionsOf(seq, j) == {i \in 1..Len(seq) : seq[i].FilePath = j}

\* The jobs the walker put on the jobs channel.
JobsPut == {hPut[i] : i \in 1..Len(hPut)}

RECURSIVE SumFindings(_)
SumFindings(seq) ==
    IF seq = <<>> THEN 0
    ELSE Len(Head(seq).Findings) + SumFindings(Tail(seq))

HasFindings(res) == Len(res.Findings) > 0

\* C1: when Wait() has returned in a run without cancellation, the number of
\* files scanned is the number of jobs the walker put on the jobs channel:
\* every job was received once, one result was sent for it, and the
\* aggregator counted every result sent once.
TotalEqualsJobs ==
    (mainPc = "returned" /\ ~cancelled) =>
        /\ report.TotalFilesScanned = Len(hPut)
        /\ \A j \in 1..Len(tree) : hRecv[j] = IF j \in JobsPut THEN 1 ELSE 0
        /\ \A j \in JobsPut : Cardinality(PositionsOf(hSent, j)) = 1
        /\ \A j \in JobsPut : Cardinality(PositionsOf(hProcessed, j)) = 1
        /\ Len(hSent) = Len(hPut)
        /\ Len(hProcessed) = Len(hPut)

\* C2: the number of files with PII never exceeds the number of files
\* scanned.
PiiFilesAtMostScanned ==
    report.TotalFilesWithPII <= report.TotalFilesScanned

PiiFilesAtMostScannedWitness ==
    /\ report.TotalFilesWithPII >= 2
    /\ report.TotalFilesScanned > report.TotalFilesWithPII

\* C3: the report's counters are those of the results processed so far: the
\* findings found are the sum of the results' findings, the files with PII
\* are the results with findings, and the findings list holds those results
\* in the order of their processing.
CountersMatchProcessed ==
    /\ report.TotalPIIFound = SumFindings(hProcessed)
    /\ report.TotalFilesWithPII =
          Cardinality({i \in 1..Len(hProcessed) : HasFindings(hProcessed[i])})
    /\ report.Findings = SelectSeq(hProcessed, HasFindings)

CountersMatchProcessedWitness ==
    /\ Len(report.Findings) >= 2
    /\ report.TotalPIIFound > Len(report.Findings)
    /\ Len(hProcessed) > Len(report.Findings)

\* C4: without cancellation a run never stops short of Wait() returning:
\* as long as Wait() has not returned, some goroutine can take a step.
RunsToReturn ==
    ~cancelled => (mainPc = "returned" \/ CanStep)

\* Whether worker w has left worker(): it returned, or it panicked and its
\* deferred wg.Done() has run.
WorkerEnded(w) == wPc[w] \in {"exited", "panic"}

\* C5: the results channel is closed only when every worker has exited
\* (returned, or unwound by a panic), and no worker sends on the closed
\* channel.
ResultsClosedAfterWorkers ==
    /\ resultsClosed => \A w \in 1..workers : WorkerEnded(w)
    /\ panicked # "send on closed channel"

ResultsClosedAfterWorkersWitness ==
    /\ resultsClosed
    /\ workers = 2
    /\ \E i, k \in 1..Len(hRecv) : i # k /\ hRecv[i] = 1 /\ hRecv[k] = 1
    /\ Len(hSent) >= 2

\* C6: once the aggregator has signalled done, and so when Wait() has
\* returned, the results channel is closed and empty and every result sent
\* has been processed, in the order sent.
DoneAfterAllConsumed ==
    (aggPc = "done" \/ mainPc = "returned") =>
        /\ aggPc = "done"
        /\ resultsClosed
        /\ results = <<>>
        /\ hProcessed = hSent
        /\ \A w \in 1..workers : WorkerEnded(w)

DoneAfterAllConsumedWitness ==
    /\ mainPc = "returned"
    /\ Len(hSent) >= 3

\* C7: the report is finalized at most once, and once by the time done is
\* signalled; at finalization every result sent has been added, and no
\* counter of the report changes afterwards.
FinalizedOnce ==
    /\ [](/\ finalizeCount <= 1
          /\ aggPc \in {"finalized", "done"} => finalizeCount = 1
          /\ finalizeCount = 1 =>
                (resultsClosed /\ results = <<>> /\ hProcessed = hSent))
    /\ [][finalizeCount >= 1 =>
             (report' = report /\ finalizeCount' = finalizeCount)]_vars

FinalizedOnceWitness ==
    /\ finalizeCount = 1
    /\ aggPc = "done"
    /\ report.TotalFilesScanned >= 2
    /\ report.TotalPIIFound >= 1

\* C8: no finding of a returned result has a snippet that was in the
\* whitelist throughout the scan (the whitelist only grows: these are the
\* values it held when the scan began).
NoWhitelistedSnippet ==
    sfPc = "done" =>
        \A i \in 1..Len(sfRes.Findings) : sfRes.Findings[i].Snippet \notin sfWl0

\* The findings performAIAnalysis keeps of the first n classifier findings,
\* each judged against the whitelist as it was at its check.
RECURSIVE KeptFindings(_, _, _)
KeptFindings(ai, seen, n) ==
    IF n = 0 THEN <<>>
    ELSE IF TrimSpace(ai[n].Value) \in seen[n]
         THEN KeptFindings(ai, seen, n - 1)
         ELSE Append(KeptFindings(ai, seen, n - 1),
                     [Type |-> ai[n].Type, Snippet |-> ai[n].Value,
                      Confidence |-> ai[n].Confidence, Offset |-> 0,
                      Context |-> ai[n].Reason])

\* AnalyzeFile was called and returned findings without an error.
ClassifierAnswered ==
    /\ sfCalls # <<>>
    /\ ~AnalyzeFile(sfIn.ai).panic
    /\ ~AnalyzeFile(sfIn.ai).err

\* C9: when the classifier answered, the findings of the result are the
\* classifier's findings, in its order, without those whose trimmed value
\* was whitelisted when checked; if all were, the result has no findings and
\* counts as a file scanned, not as a file with PII.
ClassifierFindingsFiltered ==
    (sfPc \in {"filter", "done"} /\ ClassifierAnswered) =>
        /\ Len(sfSeen) = sfI - 1
        /\ sfRes.Findings = KeptFindings(sfAi, sfSeen, sfI - 1)
        /\ sfPc = "done" => sfI = Len(sfAi) + 1
        /\ (/\ sfPc = "done"
            /\ \A i \in 1..Len(sfAi) : TrimSpace(sfAi[i].Value) \in sfSeen[i])
              => /\ sfRes.Findings = <<>>
                 /\ sfRes.Error = ""
                 /\ AddResult(NewReport, sfRes).TotalFilesScanned = 1
                 /\ AddResult(NewReport, sfRes).TotalFilesWithPII = 0

\* Two classifier findings, the first with a padded value, both dropped, the
\* second because its value was whitelisted while the loop ran.
ClassifierFindingsFilteredWitness ==
    /\ sfPc = "done"
    /\ Len(sfAi) = 2
    /\ sfAi[1].Value # TrimSpace(sfAi[1].Value)
    /\ sfSeen[1] # sfSeen[2]
    /\ sfRes.Findings = <<>>

\* C10: when the classifier call of a file returns an error, the result has
\* one finding per match, in match order, with confidence 0.5, the match's
\* kind, snippet and offset, and no context.
FallbackKeepsEveryMatch ==
    (sfPc = "done" /\ sfCalls # <<>> /\ AnalyzeFile(sfIn.ai).err) =>
        /\ Len(sfRes.Findings) = Len(sfIn.matches)
        /\ \A i \in 1..Len(sfIn.matches) :
              sfRes.Findings[i] =
                  [Type |-> sfIn.matches[i].Type,
                   Snippet |-> sfIn.matches[i].Snippet,
                   Confidence |-> 50,
                   Offset |-> sfIn.matches[i].Offset,
                   Context |-> ""]

\* A classifier timeout on a file with more matches than the context takes.
FallbackKeepsEveryMatchWitness ==
    /\ sfPc = "done"
    /\ sfCalls # <<>>
    /\ sfIn.ai.err = "timeout"
    /\ Len(sfIn.matches) > 50
    /\ Len(sfCalls[1][1].lines) = 50
    /\ Len(sfRes.Findings) = Len(sfIn.matches)

\* The extractor of the file scanned gave its matches to scanFile.
MatchesExtracted ==
    /\ sfIn.io = "ok"
    /\ IsSupported(ToLower(sfIn.ext))
    /\ sfIn.matches # <<>>

\* C11: with the classifier disabled no classifier call is made, and a file
\* with matches yields one finding per match, in match order, with
\* confidence 0.5 and no context.
DisabledNeverCalls ==
    disableAI =>
        /\ sfCalls = <<>>
        /\ sfPc \in {"idle", "done"}
        /\ (sfPc = "done" /\ MatchesExtracted) =>
              /\ Len(sfRes.Findings) = Len(sfIn.matches)
              /\ \A i \in 1..Len(sfIn.matches) :
                    /\ sfRes.Findings[i].Type = sfIn.matches[i].Type
                    /\ sfRes.Findings[i].Snippet = sfIn.matches[i].Snippet
                    /\ sfRes.Findings[i].Offset = sfIn.matches[i].Offset
                    /\ sfRes.Findings[i].Confidence = 50
                    /\ sfRes.Findings[i].Context = ""

\* The classifier is disabled and would have answered with one finding for
\* a file of two matches.
DisabledNeverCallsWitness ==
    /\ disableAI
    /\ sfPc = "done"
    /\ MatchesExtracted
    /\ Len(sfIn.matches) = 2
    /\ sfIn.ai = NewResponse("none", <<"[", "{A95}", "]">>)
    /\ Len(sfRes.Findings) = 2

\* C12: every finding of a result has a confidence from 0 to 1 (0 to 100
\* hundredths), whatever confidences the classifier's response holds.
ConfidenceInBounds ==
    \A i \in 1..Len(sfRes.Findings) :
        /\ 0 <= sfRes.Findings[i].Confidence
        /\ sfRes.Findings[i].Confidence <= 100

\* C13: a panic raised while worker w scans a file is contained: the step
\* that ends the scan leaves the process running and the worker with a
\* result, its error set, to send.
PanicContained ==
    [][\A w \in DOMAIN wPc :
          (/\ wPc[w] = "scan"
           /\ ScanFile(wJob[w], tree[wJob[w]], disableAI, whitelist).panic
           /\ (wPc'[w] # "scan" \/ panicked' # panicked))
             => /\ panicked' = "none"
                /\ wPc'[w] = "send"
                /\ wRes'[w].Error # ""]_vars

\* The text c, whose first "[" is at start and last "]" at end (0: none), is
\* not a JSON list of findings: a bracket is missing, the "]" precedes the
\* "[", or the brackets hold invalid JSON.
NotJsonBetween(c, start, end) ==
    IF start = 0 \/ end = 0 \/ end < start THEN TRUE
    ELSE ~JsonIsList(SubSeq(c, start, end))

NotJsonText(c) == NotJsonBetween(c, Index(c, "["), LastIndex(c, "]"))

\* The classifier was called and its response text is not a JSON list.
MalformedResponse ==
    /\ sfCalls # <<>>
    /\ sfIn.ai.err = "none"
    /\ NotJsonText(cleanMarkdown(callOllama(sfIn.ai).text))

\* C14: when the classifier's response text is not a parseable JSON list,
\* the scan neither fails nor falls back: its result holds exactly one
\* finding, of type "Unknown", with the response text as its value and the
\* reason "AI returned non-JSON response".
MalformedYieldsUnknown ==
    (sfPc \in {"done", "panic"} /\ MalformedResponse) =>
        /\ sfPc = "done"
        /\ Len(sfRes.Findings) = 1
        /\ sfRes.Findings[1].Type = "Unknown"
        /\ sfRes.Findings[1].Snippet = callOllama(sfIn.ai).text
        /\ sfRes.Findings[1].Context = "AI returned non-JSON response"

\* C15: once the cancellation signal is set the walker puts no further job
\* on the jobs channel and visits no further entry.
NoJobAfterCancel ==
    [][cancelled => (hPut' = hPut /\ walkIdx' = walkIdx)]_vars

\* C16: a cancelled run never stops short of Wait() returning: as long as
\* Wait() has not returned, some goroutine can take a step (every step makes
\* progress, so under fair scheduling Wait() returns).
CancelledRunsToReturn ==
    cancelled => (mainPc = "returned" \/ CanStep)

\* C17: a scan in flight is not interrupted by cancellation. A worker that
\* is scanning goes on to send, and a worker that is sending goes on to the
\* next receive with its job's result sent; a worker exits only at the
\* receive or at the select between jobs, without a result, and at a select
\* reached under cancellation it never starts the scan. When Wait() has
\* returned, every job that was being scanned or sent when the signal was
\* set has exactly one result counted in the summary.
InFlightScansComplete ==
    /\ [](mainPc = "returned" =>
             /\ \A j \in hInFlight :
                   Cardinality(PositionsOf(hProcessed, j)) = 1
             /\ report.TotalFilesScanned = Len(hProcessed))
    /\ [][\A w \in DOMAIN wPc :
             /\ wPc[w] = "scan" => wPc'[w] \in {"scan", "send"}
             /\ wPc[w] = "send" => wPc'[w] \in {"send", "recv"}
             /\ (wPc[w] = "send" /\ wPc'[w] = "recv") =>
                   (hSent' = Append(hSent, wRes[w])
                        /\ wRes[w].FilePath = wJob[w])
             /\ (wPc[w] = "select" /\ cancelled) =>
                   wPc'[w] \in {"select", "exited"}
             /\ (wPc[w] # "exited" /\ wPc'[w] = "exited") =>
                   (wPc[w] \in {"recv", "select"} /\ hSent' = hSent)]_vars

\* C18: the walker closes the jobs channel at most once, and exactly once by
\* the time an uncancelled Wait() has returned (in a run in which no worker
\* panicked, where Wait() returns without the workers having drained the
\* channel); it closes it when the
\* traversal ends (the tree is exhausted, or the walk is cancelled) and
\* afterwards neither puts a job on it nor walks on.
JobsClosedOnce ==
    /\ [](/\ jobsClosed <= 1
          /\ jobsClosed = 1 <=> walkPc = "closed"
          /\ (mainPc = "returned" /\ ~cancelled /\ panicked = "none")
                => jobsClosed = 1)
    /\ [][/\ jobsClosed' # jobsClosed => (walkIdx > Len(tree) \/ cancelled)
          /\ jobsClosed >= 1 =>
                /\ hPut' = hPut
                /\ walkIdx' = walkIdx
                /\ jobsClosed' = jobsClosed
                /\ Len(jobs') <= Len(jobs)]_vars

\* The walk was cancelled after a job was put and before the tree was
\* exhausted, the jobs channel is closed, and Wait() has returned.
JobsClosedOnceWitness ==
    /\ mainPc = "returned"
    /\ jobsClosed = 1
    /\ cancelled
    /\ walkIdx <= Len(tree)
    /\ Len(hPut) >= 1

\* Keyword o of file f lies wholly in an overlap region: in the last
\* overlapSize bytes of a buffer after which the file goes on.
InOverlap(f, o) ==
    \E k \in 1..2 :
        /\ k * bufSize < f.size
        /\ k * bufSize - overlapSize <= o.at
        /\ o.at + Len(Keyword(o.kind)) <= k * bufSize

\* How many of the matches ms report keyword o at its offset in the file.
Reports(ms, o) ==
    Cardinality({i \in 1..Len(ms) :
                    /\ ms[i].Type = o.kind
                    /\ ms[i].Offset = o.at
                    /\ ms[i].Value = Keyword(o.kind)})

\* C19: a keyword that lies wholly in the overlap region of a file of more
\* than one chunk is reported exactly once in the matches Scan returns.
OverlapReportedOnce ==
    txPc = "done" =>
        \A o \in txFile.occs :
            InOverlap(txFile, o) => Reports(txMatches, o) = 1

\* C20: the offsets of the matches of one detector kind, in the order of the
\* list, never decrease.
OffsetsMonotonic ==
    \A i, j \in 1..Len(txMatches) :
        (i < j /\ txMatches[i].Type = txMatches[j].Type)
            => txMatches[i].Offset <= txMatches[j].Offset


\* The byte the specification of sanitizeBytes asks for in place of b.
SanitizedAs(b) ==
    IF b \in 32..126 \/ b \in {9, 10, 13} \/ b > 127 THEN b ELSE 32

\* C21: sanitizeBytes returns a buffer of the length of its argument in
\* which every printable ASCII byte, tab, newline, carriage return and
\* every byte above 127 is the argument's byte and every other byte is the
\* ASCII space; the argument is not modified by the call.
SanitizeKeepsLengthAndBytes ==
    /\ [](fnPc = "returned" /\ fnName = "sanitizeBytes"
            => /\ Len(fnOut) = Len(fnIn)
               /\ \A i \in 1..Len(fnIn) : fnOut[i] = SanitizedAs(fnIn[i]))
    /\ [][fnName = "sanitizeBytes" => fnIn' = fnIn]_vars

SanitizeKeepsLengthAndBytesWitness ==
    /\ fnPc = "returned"
    /\ fnName = "sanitizeBytes"
    /\ fnIn = <<0, 127, 128>>
    /\ fnOut = <<32, 32, 128>>


\* digits-only(s): the values of the digits of s, in order.
DigitsOnly(s) ==
    [i \in 1..Len(SelectSeq(s, LAMBDA c : c \in 48..57)) |->
        SelectSeq(s, LAMBDA c : c \in 48..57)[i] - 48]

\* The Luhn sum of the digits d: counted from the right, every second digit
\* is doubled and 9 is subtracted when the doubled value exceeds 9.
RECURSIVE LuhnSumFrom(_, _)
LuhnSumFrom(d, i) ==
    IF i > Len(d) THEN 0
    ELSE (IF (Len(d) - i) % 2 = 1
          THEN (IF 2 * d[i] > 9 THEN 2 * d[i] - 9 ELSE 2 * d[i])
          ELSE d[i])
         + LuhnSumFrom(d, i + 1)

\* Whether the digits of the candidate m are 13 to 19 in number and have
\* a Luhn sum of 0 modulo 10.
LuhnValid(m) ==
    /\ Len(DigitsOnly(m.Value)) \in 13..19
    /\ LuhnSumFrom(DigitsOnly(m.Value), 1) % 10 = 0

\* C22: of the candidates the credit-card pattern finds in a content, the
\* detector keeps, in their order, exactly those whose digits are 13 to 19
\* in number and have a Luhn sum of 0 modulo 10.
LuhnDecidesCreditCard ==
    fnPc = "returned" /\ fnName = "CreditCardDetector.Detect"
        => fnOut = SelectSeq(BaseDetect(fnIn), LuhnValid)

\* Of the two candidates of "x: 4111 1111 1111 1112, 4111-1111-1111-1111"
\* the second is kept and the first is not.
LuhnDecidesCreditCardWitness ==
    /\ fnPc = "returned"
    /\ fnName = "CreditCardDetector.Detect"
    /\ Len(BaseDetect(fnIn)) = 2
    /\ BaseDetect(fnIn)[1].Value = CardDropped
    /\ ~LuhnValid(BaseDetect(fnIn)[1])
    /\ Len(fnOut) = 1
    /\ fnOut[1].Value = CardKept
    /\ fnOut[1].Offset = 24


\* The number a character of an IBAN stands for: a digit for itself, the
\* letters A..Z for 10..35.
IbanValue(c) == IF c \in 48..57 THEN c - 48 ELSE c - 65 + 10

\* The remainder modulo 97 of the number the characters cs spell, summed
\* from the right: pow is the power of ten of the character at i.
RECURSIVE IbanRemainder(_, _, _)
IbanRemainder(cs, i, pow) ==
    IF i < 1 THEN 0
    ELSE (IbanValue(cs[i]) * pow
          + IbanRemainder(cs, i - 1,
               (pow * (IF IbanValue(cs[i]) >= 10 THEN 100 ELSE 10)) % 97))
         % 97

\* C23: the IBAN detector keeps a candidate exactly when it has 15 to 34
\* characters and the number spelled by its characters, the first four
\* moved to the end and each letter read as 10..35, is 1 modulo 97.
Mod97DecidesIban ==
    fnPc = "returned" /\ fnName = "IBANDetector.Detect"
        => (fnOut <=>
              /\ Len(fnIn) >= 15
              /\ Len(fnIn) <= 34
              /\ IbanRemainder(SubSeq(fnIn, 5, Len(fnIn)) \o SubSeq(fnIn, 1, 4),
                               Len(fnIn), 1) = 1)

\* GB82WEST12345698765432 is kept.
Mod97DecidesIbanWitness ==
    /\ fnPc = "returned"
    /\ fnName = "IBANDetector.Detect"
    /\ fnIn = <<71, 66, 56, 50, 87, 69, 83, 84, 49, 50, 51, 52, 53, 54,
               57, 56, 55, 54, 53, 52, 51, 50>>
    /\ fnOut = TRUE


\* Whether entry e is a file whose extension, whatever its case, is on the
\* reject list.
RejectedFile(e) == e.kind = "file" /\ ToLower(e.ext) \in RejectList

\* Whether entry e is a file the walker has to emit: its extension is not on
\* the reject list and the size filter of fast mode (the size d.Info()
\* reports, when it reports one, is over the limit) does not skip it.
DueFile(e) ==
    /\ e.kind = "file"
    /\ ToLower(e.ext) \notin RejectList
    /\ ~(fastMode /\ ~e.info.err /\ e.info.size > FastModeLimit)

\* The paths of the results in seq.
PathsOf(seq) == {seq[i].FilePath : i \in 1..Len(seq)}

\* C24: a file with a rejected extension, upper or lower case, gets no job
\* and no result and is not counted; only files due are emitted, and a walk
\* that ends without cancellation has emitted every file due, once, so that
\* the files counted at the return of Wait() are the files due.
RejectedNeverEmitted ==
    /\ \A j \in JobsPut : DueFile(tree[j])
    /\ \A j \in 1..Len(tree) :
          RejectedFile(tree[j])
              => /\ j \notin JobsPut
                 /\ hRecv[j] = 0
                 /\ j \notin PathsOf(hSent) \cup PathsOf(hProcessed)
                 /\ j \notin PathsOf(results) \cup PathsOf(report.Findings)
    /\ walkPc = "closed" /\ ~cancelled
          => /\ JobsPut = {j \in 1..Len(tree) : DueFile(tree[j])}
             /\ Len(hPut) = Cardinality(JobsPut)
    /\ mainPc = "returned" /\ ~cancelled /\ panicked = "none"
          => report.TotalFilesScanned
                = Cardinality({j \in 1..Len(tree) : DueFile(tree[j])})

\* A run in fast mode has returned: the .EXE file and the file over the
\* size limit have no job, the other files are counted, among them a file
\* over the limit whose d.Info() failed.
RejectedNeverEmittedWitness ==
    /\ mainPc = "returned"
    /\ ~cancelled
    /\ fastMode
    /\ Len(tree) >= 5
    /\ RejectedFile(tree[2])
    /\ tree[2].ext = ".EXE"
    /\ tree[3].info.size > FastModeLimit
    /\ tree[5].info.err /\ tree[5].size > FastModeLimit
    /\ JobsPut = {4, 5} \cup {j \in 6..Len(tree) : DueFile(tree[j])}
    /\ report.TotalFilesScanned = Len(tree) - 3


\* Whether the scan under way is of a file the walker emits a job for and
\* whose stat, open or extraction fails.
FailingJob == sfIn.io \in {"stat", "open", "scan"} /\ IsSupported(ToLower(sfIn.ext))

\* C25: the scan of a job whose file cannot be stat'ed or opened, or whose
\* extractor fails, returns (it does not panic and does not consult the
\* classifier) a result with the error set and no findings, which the
\* report counts as scanned and not as a file with PII; and no result has
\* both an error and findings.
ErrorResultHasNoFindings ==
    /\ FailingJob => sfPc \in {"idle", "done"} /\ sfCalls = <<>>
    /\ FailingJob /\ sfPc = "done"
          => /\ sfRes.Error = sfIn.io
             /\ sfRes.Findings = <<>>
             /\ AddResult(NewReport, sfRes).TotalFilesScanned = 1
             /\ AddResult(NewReport, sfRes).TotalFilesWithPII = 0
             /\ AddResult(NewReport, sfRes).TotalPIIFound = 0
    /\ sfPc # "off" => ~(sfRes.Error # "" /\ sfRes.Findings # <<>>)

\* The scan of a .txt file whose extractor failed, although it had matches
\* and the classifier is enabled, has returned.
ErrorResultHasNoFindingsWitness ==
    /\ sfPc = "done"
    /\ ~disableAI
    /\ sfIn.ext = ".txt"
    /\ sfIn.io = "scan"
    /\ sfIn.matches # <<>>
    /\ sfRes.Error = "scan"
    /\ sfRes.Findings = <<>>


\* Whether the walker is at a file it has a job for and the jobs buffer is
\* full.
WalkerAtFullJobs ==
    /\ walkPc = "walk"
    /\ walkIdx <= Len(tree)
    /\ DueFile(tree[walkIdx])
    /\ Len(jobs) >= 4 * workers

\* Whether the step leaves the walker at the file it is at.
WalkerStays == walkIdx' = walkIdx

\* Whether the step leaves worker w sending the result it holds.
WorkerStays(w) == wPc'[w] = "send" /\ wJob'[w] = wJob[w] /\ hRecv' = hRecv

\* C30: with N workers the jobs channel never buffers more than 4*N jobs
\* nor the results channel more than 4*N results; while the jobs buffer is
\* full the walker stays at the file it has a job for, and while the results
\* buffer is full a worker that holds a result takes no new job.
BuffersBoundedAndBlocking ==
    /\ [](Len(jobs) <= 4 * workers /\ Len(results) <= 4 * workers)
    /\ [][WalkerAtFullJobs => WalkerStays]_vars
    /\ [][\A w \in 1..workers :
             wPc[w] = "send" /\ Len(results) >= 4 * workers
                => WorkerStays(w)]_vars

\* The jobs buffer is full and the walker is at a file it has a job for.
BuffersBoundedAndBlockingWitness ==
    /\ WalkerAtFullJobs
    /\ Len(jobs) = 4 * workers
    /\ ~cancelled


\* The lines appended to the whitelist file since the whitelist was made.
AppendedLines == SubSeq(wlFile, Cardinality(wlLoaded) + 1, Len(wlFile))

\* C27: after any sequence of Add calls the set holds the values loaded and
\* the trimmed, non-empty values added, and the file has received one line
\* for each added value that was not in the set, and no other line (so that
\* an Add of an empty or known value changed nothing).
AddAppendsOncePerValue ==
    /\ whitelist = wlLoaded \cup wlAdded
    /\ {AppendedLines[i] : i \in 1..Len(AppendedLines)} = wlAdded \ wlLoaded
    /\ Len(AppendedLines) = Cardinality(wlAdded \ wlLoaded)


\* C26: when the initial classifier ping fails the process ends with a
\* nonzero exit code, and no scan was started and no report written.
PingFailureExitsNonzero ==
    mainPc = "aborted"
        => /\ exitCode > 0
           /\ walkPc = "idle" /\ aggPc = "idle" /\ wg = 0
           /\ hPut = <<>> /\ hSent = <<>>
           /\ scanModelID = 0 /\ dbScan = NoScan
           /\ ~reportSaved

\* The row SaveFinding is to insert for finding f of result res.
RowOf(res, f) ==
    [ScanID |-> scanModelID, FilePath |-> res.FilePath, Type |-> f.Type,
     Value |-> f.Snippet, Reason |-> f.Context, Confidence |-> f.Confidence]

\* The rows to insert for the results of seq: one for each finding of each
\* result, in order.
RECURSIVE RowsOf(_)
RowsOf(seq) ==
    IF seq = <<>> THEN <<>>
    ELSE [i \in 1..Len(Head(seq).Findings) |->
             RowOf(Head(seq), Head(seq).Findings[i])]
         \o RowsOf(Tail(seq))

\* Whether Wait() has returned.
WaitReturned == mainPc \in {"returned", "exited"}

\* C28: with a store attached and working, when Wait() has returned every
\* finding of every result sent has been saved exactly once under the
\* scan's ID and the scan row is Completed with the three counters of the
\* final summary; and once the row is Completed no finding is saved.
StoreCompleteAtReturn ==
    /\ [](storeMode = "ok" /\ WaitReturned
            => /\ scanModelID # 0
               /\ dbFindings = RowsOf(hSent)
               /\ dbScan.Status = "Completed"
               /\ dbScan.TotalFiles = report.TotalFilesScanned
               /\ dbScan.PIIFiles = report.TotalFilesWithPII
               /\ dbScan.TotalFindings = report.TotalPIIFound)
    /\ [][storeMode = "ok" /\ dbScan'.Status = "Completed"
             => dbFindings' = dbFindings /\ dbFindings = RowsOf(hSent')]_vars

\* Wait() has returned with two findings saved and the row Completed.
StoreCompleteAtReturnWitness ==
    /\ storeMode = "ok"
    /\ mainPc = "returned"
    /\ Len(dbFindings) >= 2
    /\ Len(hSent) >= 2
    /\ dbScan.Status = "Completed"
    /\ dbScan.TotalFindings = Len(dbFindings)
    /\ dbScan.TotalFiles = Len(hSent)

\* The report processResults has to have built from the results of seq.
ReportOf(seq) ==
    [TotalFilesScanned |-> Len(seq),
     TotalFilesWithPII |-> Len(SelectSeq(seq, HasFindings)),
     TotalPIIFound |-> SumFindings(seq),
     Findings |-> SelectSeq(seq, HasFindings)]

\* C29: whichever store operation fails, the aggregator can take its next
\* step whenever a result or the end of the results is there for it, the
\* report is the one its results give (the same as with a working store),
\* and when Wait() has returned every result sent was processed and the
\* done signal raised.
StoreFailuresDoNotStop ==
    /\ report = ReportOf(hProcessed)
    /\ Alive /\ AggregatorCanStep => ENABLED Aggregator
    /\ WaitReturned => aggPc = "done" /\ hProcessed = hSent

\* Wait() has returned from a run in which every SaveFinding failed: the
\* report has the findings, the store has none.
StoreFailuresDoNotStopWitness ==
    /\ storeMode = "SaveFinding"
    /\ mainPc = "returned"
    /\ scanModelID # 0
    /\ report.TotalPIIFound >= 2
    /\ dbFindings = <<>>
    /\ dbScan.Status = "Completed"
    /\ aggPc = "done"


\* C31: whatever sizes the reads have, the overlap prepended to a read is
\* the last min(overlapSize, bytes consumed so far) bytes of the stream,
\* and so every keyword of the file is found whole in some chunk: the
\* matches Scan returns report it at least once.
OverlapIsStreamTail ==
    /\ (txPc = "read" /\ txOffset < txFile.size)
            => txOverlap = Min(overlapSize, txOffset)
    /\ txPc = "done" =>
          \A o \in txFile.occs : Reports(txMatches, o) >= 1


\* C32: every match of the plain-text extractor carries the absolute
\* position of its value: the sanitized bytes of the file at
\* [Offset, Offset + Len(Value)) are the value, for every file length and
\* every sequence of read sizes; the base offset of a chunk is the number of
\* bytes consumed before the read minus the length of the overlap, and is
\* never negative.
MatchOffsetsAbsolute ==
    /\ \A i \in 1..Len(txMatches) :
          /\ txMatches[i].Offset >= 0
          /\ txMatches[i].Offset + Len(txMatches[i].Value) <= txFile.size
          /\ sanitizeBytes(FileBytes(txFile, txMatches[i].Offset,
                 txMatches[i].Offset + Len(txMatches[i].Value)))
               = txMatches[i].Value
    /\ txPc = "read" =>
          /\ ChunkStartOffset(txOffset, txOverlap) = txOffset - txOverlap
          /\ ChunkStartOffset(txOffset, txOverlap) >= 0

\* Scan returned after a short read, with a match found in the chunk read
\* after it.
MatchOffsetsAbsoluteWitness ==
    /\ txPc = "done"
    /\ txFile.short = <<bufSize, 1>>
    /\ \E i \in 1..Len(txMatches) : txMatches[i].Offset > bufSize


\* The place of a detector kind in the declared order of the detectors.
DetectorRank(kind) ==
    CHOOSE i \in 1..Len(DetectorsList) : DetectorsList[i] = kind

\* C33: in the match list of a file the matches stand in the declared
\* order of the detectors: no match of a later detector stands before a
\* match of an earlier one, also when the file has several chunks.
MatchesInDetectorOrder ==
    \A i, j \in 1..Len(txMatches) :
        i < j => DetectorRank(txMatches[i].Type)
                    <= DetectorRank(txMatches[j].Type)


\* Where in the matches ms a match of kind t stands first.
FirstAt(ms, t) ==
    CHOOSE i \in 1..Len(ms) :
        ms[i].Type = t /\ \A j \in 1..(i - 1) : ms[j].Type # t

\* tl names each kind of the matches ms once, in order of first occurrence.
KindsInFirstOrder(tl, ms) ==
    /\ {tl[i] : i \in 1..Len(tl)} = {ms[i].Type : i \in 1..Len(ms)}
    /\ \A i, j \in 1..Len(tl) :
          i < j => FirstAt(ms, tl[i]) < FirstAt(ms, tl[j])

\* C34: with the classifier enabled a scanned file causes at most one
\* AnalyzeFile call: exactly one when the extractor succeeded with at
\* least one match, none otherwise; the call receives each distinct kind
\* of the matches once, in order of first occurrence.
OneClassifierCallPerFile ==
    ~disableAI =>
        /\ Len(sfCalls) <= 1
        /\ sfPc # "idle" =>
              Len(sfCalls) = IF MatchesExtracted THEN 1 ELSE 0
        /\ sfCalls # <<>> => KindsInFirstOrder(sfCalls[1][2], sfIn.matches)

\* scanFile returned after its one call, made for matches email, IBAN,
\* email: the call got the kinds email, IBAN.
OneClassifierCallPerFileWitness ==
    /\ ~disableAI
    /\ sfPc = "done"
    /\ sfIn.matches = <<mA, mB, mA2>>
    /\ Len(sfCalls) = 1
    /\ sfCalls[1][2] = <<"Email", "IBAN">>


\* C35: no finding made from a classifier response has confidence 0: a
\* finding for which the response gives no confidence or the confidence
\* zero, the "Unknown" finding of a non-JSON response included, carries the
\* default confidence 0.8.
NoZeroConfidence ==
    /\ \A i \in 1..Len(sfAi) :
          /\ sfAi[i].Confidence # 0
          /\ sfAi[i].Type = "Unknown" => sfAi[i].Confidence = DefaultConfidence
    /\ sfCalls # <<>> =>
          \A i \in 1..Len(sfRes.Findings) : sfRes.Findings[i].Confidence # 0


\* The non-empty cells of the workbook b that lie in a sheet and a row
\* that are read, as <<sheet, row, cell>>.
CellsRead(b) ==
    {x \in (1..Len(b.sheets)) \X (1..3)
              \X UNION {row.cells : row \in ExcelRows} :
        /\ ~b.sheets[x[1]].err
        /\ x[2] <= Len(b.sheets[x[1]].rows)
        /\ \A q \in 1..x[2] : ~b.sheets[x[1]].rows[q].err
        /\ x[3] \in b.sheets[x[1]].rows[x[2]].cells}

\* C36: in the spreadsheet extractor no cell with a column index above
\* 1000 is handed to the detectors, whatever cells of the row are empty;
\* every non-empty cell with an index of 0..1000 is scanned, and its
\* matches carry the row index as offset.
WideRowsCutAtLimit ==
    (fnPc = "returned" /\ fnName = "ExcelScanner.Scan" /\ ~fnOut.err) =>
        /\ \A i \in 1..Len(fnOut.scanned) :
              fnOut.scanned[i].col <= ExcelColLimit
        /\ \A x \in CellsRead(fnIn) :
              x[3].col <= ExcelColLimit =>
                \E i \in 1..Len(fnOut.scanned) :
                    fnOut.scanned[i] = [sheet |-> x[1], row |-> x[2],
                                        col |-> x[3].col]
        /\ \A i \in 1..Len(fnOut.matches) :
              \E j \in 1..Len(fnOut.scanned) :
                  fnOut.matches[i].Offset = fnOut.scanned[j].row


\* The matches of the detectors run on the text of each readable page of
\* pages from page i on, with the page number as offset.
RECURSIVE BatteryOnPages(_, _)
BatteryOnPages(pages, i) ==
    IF i > Len(pages) THEN <<>>
    ELSE (IF pages[i].null \/ pages[i].err THEN <<>>
          ELSE runRegexChecks(pages[i].text, 0, pages[i].text.size, i))
            \o BatteryOnPages(pages, i + 1)

\* C37: for every page of a PDF the matches the PDF extractor emits are
\* those of the detectors run on the text of the page with the page index
\* as offset: every detector, every occurrence.
PdfPagesScannedLikeText ==
    (fnPc = "returned" /\ fnName = "PDFScanner.Scan" /\ ~fnOut.err) =>
        fnOut.matches = BatteryOnPages(fnIn.pages, 1)


\* C38: after any sequence of Add calls, whose appends may fail, every
\* value the whitelist contains is a line of its file, loaded or appended:
\* a whitelist loaded anew from the file holds the same set.
ReloadGivesSameSet ==
    /\ whitelist = load(wlFile)
    /\ \A v \in WlAddArgs :
          Contains(whitelist, v) => \E i \in 1..Len(wlFile) : wlFile[i] = TrimSpace(v)


\* C39: when the whitelist could not be loaded (the file is missing or
\* cannot be read) the scanner has a usable empty whitelist: it contains no
\* value that was not added, and every Add of a value completes without a
\* panic and makes Contains true for the value.
FailedLoadGivesUsableWhitelist ==
    wlLoaded = {} =>
        /\ panicked = "none"
        /\ \A v \in WlAddArgs :
              Contains(whitelist, v) <=> TrimSpace(v) \in wlAdded


\* The requests whose scan goroutine was started and has not returned.
ActiveScans ==
    {r \in 1..MaxRequests : goPc[r] \in {"new", "running", "waited", "reported"}}

\* Request r passes the test of the flag, finding it set.
ChecksWhileScanning(r) ==
    srvPc[r] = "locked" /\ scanning /\ srvPc'[r] # "locked"

\* Request r passes the test of the flag, finding it clear.
ChecksWhileClear(r) ==
    srvPc[r] = "locked" /\ ~scanning /\ srvPc'[r] # "locked"

\* Request r is answered with 409 and is done; no goroutine is started and
\* the configuration is left as it was.
Rejected(r) ==
    /\ srvStatus'[r] = 409
    /\ srvPc'[r] = "done"
    /\ goPc' = goPc
    /\ cfgRootPath' = cfgRootPath

\* The flag is cleared.
FlagCleared == scanning /\ ~scanning'

\* A scan goroutine for which Wait() has returned ends.
GoroutineEnds ==
    \E r \in 1..MaxRequests : goPc[r] = "reported" /\ goPc'[r] = "exited"

\* C40: under every interleaving of POST /scan requests at most one
\* web-triggered scan runs at a time: a request that finds the flag set is
\* answered with 409, starts no scanner and leaves the configuration
\* alone; the flag is set before the scan goroutine starts and is cleared
\* only after Wait() returned, and a request that finds it clear is
\* accepted.
OneWebScanAtATime ==
    /\ [](Cardinality(ActiveScans) <= 1)
    /\ [](\A r \in 1..MaxRequests :
            /\ (r \in ActiveScans \/ srvPc[r] \in {"accepted", "spawn"})
                    => scanning
            /\ srvStatus[r] = 409 => goPc[r] = "none")
    /\ [][\A r \in 1..MaxRequests : ChecksWhileScanning(r) => Rejected(r)]_vars
    /\ [][\A r \in 1..MaxRequests :
            ChecksWhileClear(r) => srvPc'[r] = "accepted"]_vars
    /\ [][FlagCleared => GoroutineEnds]_vars

\* A first scan ran and its goroutine returned, a request that arrived
\* while it ran was answered with 409, and a later request was accepted:
\* its scan is running.
OneWebScanAtATimeWitness ==
    \E a, b, c \in 1..MaxRequests :
        /\ goPc[a] = "exited"
        /\ srvStatus[b] = 409
        /\ goPc[c] = "running"
        /\ scanning

====
